---------------------------- MODULE Spec2Model ----------------------------
(***************************************************************************)
(* A model of the APEGA salary-survey scripts: the per-level regression    *)
(* forecaster and the group harmonizer of scripts/forecast_salaries.py,    *)
(* and the scripts that write and update data/salary_master.json.          *)
(*                                                                         *)
(* Specifications, all over the same variables:                            *)
(*   SpecLevel      _forecast_level applied to one level's history;        *)
(*   SpecHarmonize  _harmonize_group_growth applied to a forecast set;     *)
(*   SpecForecast   forecast_all: the loop, the harmonization, the save;   *)
(*   SpecRoundTrip  save_master_dataset followed by load_master_data;      *)
(*   SpecScripts    runs of parse_salary_tables.py and of the year-        *)
(*                  specific extraction scripts, in any order.             *)
(*                                                                         *)
(* Dict keys.  The forecasts are keyed by str(year); the model writes the  *)
(* year itself for such a key.  The keys of by_year, where int and str     *)
(* keys meet, are written StrKey(y) and IntKey(y).                         *)
(*                                                                         *)
(* Numbers.  The forecaster computes in binary floating point.  The model  *)
(* computes the same quantities as exact rationals <<n, d>> (d > 0, in     *)
(* lowest terms).  Where the floating-point evaluation can differ from the *)
(* exact one in a way that changes a result, the model says so:            *)
(*   - a value that is exactly k + 1/2 may reach round() on either side,   *)
(*     so RoundChoices gives both neighbours;                              *)
(*   - the comparison pred < last * (pred'/last') of the harmonizer, when  *)
(*     both sides are equal as rationals, is decided by the IEEE double    *)
(*     rounding of the quotient and of the product (FloatProductExceeds).  *)
(***************************************************************************)
EXTENDS Integers, Naturals, Sequences, FiniteSets, TLC

VARIABLES
    pc,               \* position of the script being run
    historical,       \* _forecast_level: its argument, year -> salary
    forecast_data,    \* _forecast_level: its result, year -> integer
    master_data,      \* SalaryForecaster.master_data (loaded salary_master.json)
    years_available,  \* SalaryForecaster.years_available
    salary_by_level,  \* forecast_all: level -> forecast (changed in place by the harmonizer)
    forecasts,        \* SalaryForecaster.forecasts['ENG']
    forecasts_file,   \* data/salary_forecasts_2024_2030.json
    salary_data,      \* SalaryTableParser.salary_data
    org_stats,        \* SalaryTableParser.org_stats
    gender_data,      \* SalaryTableParser.gender_data
    work_arrangements,\* SalaryTableParser.work_arrangements
    master_dataset,   \* save_master_dataset: the dict it dumps
    master_file,      \* data/salary_master.json
    year_files,       \* data/salary_data_2021.json and salary_data_2024.json
    docs,             \* docs/<year>/apega_salary_survey_<year>.pdf, per year
    docs_at_start,    \* download_pdfs: the files when main started
    results,          \* download_pdfs.main: results
    prev_results,     \* download_pdfs.main: results of the run before
    requested,        \* download_pdfs: the requests.get calls of the run
    opened,           \* download_pdfs: the years whose file was opened 'wb'
    checksummed,      \* download_pdfs: the years passed to sha256_of_file
    pdf_idx,          \* download_pdfs.main: position in PDF_LINKS
    runs,             \* download_pdfs: the number of runs of main started
    extractor,        \* the extractor class whose extraction is running
    document,         \* the pages of the PDF being extracted
    position,         \* extraction: the number of matches handled so far
    extracted,        \* extraction: the fields recorded so far
    pdf_files,        \* parse_all_years: pdf_files, as years
    parse_pos,        \* parse_all_years: position in pdf_files
    errors,           \* parse_all_years: the years whose error was printed
    script_outcome,   \* OCR scripts: how the last run of __main__ ended
    stdout,           \* verify_data.py: the lines printed about the files
    procs,            \* concurrent save_results: each run's position and loaded master
    events,           \* concurrent save_results: the reads and writes so far
    forecast_by_level, \* history: level -> forecast as _forecast_level returned it
    legacy_files      \* scripts/data/: the OUTPUT_DIR of legacy/extract_2021_manual.py

\* The variables of the forecaster and those of the extraction scripts.
forecasterVars == <<pc, historical, forecast_data, master_data, years_available,
                    salary_by_level, forecasts, forecasts_file>>
scriptVars == <<salary_data, org_stats, gender_data, work_arrangements,
                master_dataset, master_file, year_files>>
downloadVars == <<docs, docs_at_start, results, prev_results, requested,
                  opened, checksummed, pdf_idx, runs>>
extractVars == <<extractor, document, position, extracted, pdf_files, parse_pos,
                 errors, script_outcome>>
auxVars == <<stdout, procs, events>>
otherVars == <<forecast_by_level, legacy_files>>
vars == <<forecasterVars, scriptVars, downloadVars, extractVars, auxVars, otherVars>>

-----------------------------------------------------------------------------
(* Exact rational arithmetic.                                              *)

Abs(n) == IF n < 0 THEN -n ELSE n

RECURSIVE GCD(_, _)
GCD(a, b) == IF b = 0 THEN a ELSE GCD(b, a % b)

\* The rational n/d in lowest terms with a positive denominator (d # 0).
Q(n, d) ==
    LET s == IF d < 0 THEN -1 ELSE 1
        g == GCD(Abs(n), Abs(d))
    IN  <<(s * n) \div g, (s * d) \div g>>

QInt(n) == <<n, 1>>
QAdd(a, b) == Q(a[1] * b[2] + b[1] * a[2], a[2] * b[2])
QSub(a, b) == Q(a[1] * b[2] - b[1] * a[2], a[2] * b[2])
QMul(a, b) == Q(a[1] * b[1], a[2] * b[2])
QDiv(a, b) == Q(a[1] * b[2], a[2] * b[1])
QLt(a, b) == a[1] * b[2] < b[1] * a[2]
QLe(a, b) == a[1] * b[2] <= b[1] * a[2]
QIsInt(a) == a[2] = 1
QFloor(a) == a[1] \div a[2]

RECURSIVE SumQ(_, _)
\* The sum of f[x] over x in S.
SumQ(f, S) ==
    IF S = {} THEN QInt(0)
    ELSE LET x == CHOOSE x \in S : TRUE
         IN  QAdd(f[x], SumQ(f, S \ {x}))

RECURSIVE SumInt(_, _)
SumInt(f, S) ==
    IF S = {} THEN 0
    ELSE LET x == CHOOSE x \in S : TRUE
         IN  f[x] + SumInt(f, S \ {x})

RECURSIVE IPow(_, _)
\* x ** k for k >= 0 (0 ** 0 = 1, as in Python).
IPow(x, k) == IF k = 0 THEN 1 ELSE x * IPow(x, k - 1)

RECURSIVE Products(_, _)
\* The functions f on S with f[x] \in opts[x] for every x in S.
Products(opts, S) ==
    IF S = {} THEN {<<>>}
    ELSE LET x == CHOOSE x \in S : TRUE
         IN  UNION { { (x :> v) @@ rest : rest \in Products(opts, S \ {x}) } :
                     v \in opts[x] }

MinOf(S) == CHOOSE x \in S : \A y \in S : x <= y
MaxOf(S) == CHOOSE x \in S : \A y \in S : y <= x

-----------------------------------------------------------------------------
(* IEEE double rounding, where it decides a comparison.                    *)

Pow2(k) == 2 ^ k

RECURSIVE Log2Up(_, _, _)
\* For a >= b: the e >= from with 2^e <= a/b < 2^(e+1).
Log2Up(a, b, from) ==
    IF a < b * Pow2(from + 1) THEN from ELSE Log2Up(a, b, from + 1)

RECURSIVE Log2Down(_, _, _)
\* For a < b: the e <= from with 2^e <= a/b < 2^(e+1), from < 0.
Log2Down(a, b, from) ==
    IF a * Pow2(-from) >= b THEN from ELSE Log2Down(a, b, from - 1)

\* The binary exponent of the positive rational a/b.
Exponent(a, b) == IF a >= b THEN Log2Up(a, b, 0) ELSE Log2Down(a, b, -1)

MantissaBits == 52   \* fraction bits of an IEEE 754 double

\* The binary expansion of a quotient with divisor B, MantissaBits bits on
\* from remainder rem: <<remainder, last bit>> after them.  Thirteen bits
\* are produced at a time (B * 2^13 stays below 2^31 for the divisors of
\* the model).
LongDivision(rem, B) ==
    LET r13 == (rem * Pow2(13)) % B
        r26 == (r13 * Pow2(13)) % B
        r39 == (r26 * Pow2(13)) % B
        r51 == (r39 * Pow2(MantissaBits - 40)) % B
        bit == IF 2 * r51 >= B THEN 1 ELSE 0
    IN  <<2 * r51 - bit * B, bit>>

\* The double nearest to X/Y, as <<A, B, rem, up>>: the quotient scaled into
\* [1, 2) is A/B, rem is the remainder left after MantissaBits bits, and up
\* says that round-to-nearest-even rounds the quotient up.
FloatQuotient(X, Y) ==
    LET g  == GCD(X, Y)
        p  == X \div g
        r  == Y \div g
        eq == Exponent(p, r)
        A  == IF eq >= 0 THEN p ELSE p * Pow2(-eq)
        B  == IF eq >= 0 THEN r * Pow2(eq) ELSE r
        d  == LongDivision(A - B, B)
        up == 2 * d[1] > B \/ (2 * d[1] = B /\ d[2] = 1)
    IN  [B |-> B, rem |-> d[1], up |-> up, eq |-> eq]

\* For positive integers with P/L = X/Y: whether P < L * (X / Y) as the
\* doubles compute it, i.e. whether the product of L and the rounded
\* quotient rounds to a double above P.
FloatProductExceeds(P, L, X, Y) ==
    LET fq == FloatQuotient(X, Y)
        eP == Exponent(P, 1)
        k  == fq.eq + 1 - eP
        lhs == L * (fq.B - fq.rem)
    IN  /\ fq.up
        /\ IF k >= 0 THEN lhs * Pow2(k) > fq.B
                     ELSE lhs > fq.B * Pow2(-k)

-----------------------------------------------------------------------------
(* SalaryForecaster._forecast_level.                                       *)

FirstForecastYear == 2024
LastForecastYear == 2030
ForecastYears == FirstForecastYear .. LastForecastYear

\* years_norm: each historical year minus the first one.
YearsNorm(hist) == [y \in DOMAIN hist |-> y - MinOf(DOMAIN hist)]

\* scipy.stats.linregress(years_norm, salaries): the least-squares line.
LinRegress(hist) ==
    LET ys == DOMAIN hist
        x  == YearsNorm(hist)
        n  == Cardinality(ys)
        xmean == Q(SumInt(x, ys), n)
        ymean == QDiv(SumQ(hist, ys), QInt(n))
        ssxm  == SumQ([y \in ys |-> QMul(QSub(QInt(x[y]), xmean),
                                         QSub(QInt(x[y]), xmean))], ys)
        ssxym == SumQ([y \in ys |-> QMul(QSub(QInt(x[y]), xmean),
                                         QSub(hist[y], ymean))], ys)
        slope == QDiv(ssxym, ssxm)
    IN  [slope |-> slope, intercept |-> QSub(ymean, QMul(slope, xmean))]

Det3(m) ==
    QAdd(QSub(QMul(m[1][1], QSub(QMul(m[2][2], m[3][3]), QMul(m[2][3], m[3][2]))),
              QMul(m[1][2], QSub(QMul(m[2][1], m[3][3]), QMul(m[2][3], m[3][1])))),
         QMul(m[1][3], QSub(QMul(m[2][1], m[3][2]), QMul(m[2][2], m[3][1]))))

\* The matrix m with column i replaced by the vector b.
WithColumn(m, i, b) ==
    [r \in 1..3 |-> [c \in 1..3 |-> IF c = i THEN b[r] ELSE m[r][c]]]

\* np.polyfit(years_norm, salaries, 2): coefficients <<a, b, c>> of
\* a*x^2 + b*x + c.  With three or more (distinct) years the least-squares
\* quadratic is unique and solves the normal equations.  With two years
\* x = 0, d the system is rank deficient and lstsq returns the solution of
\* minimum norm in polyfit's column-scaled coordinates (columns divided by
\* their norms d^2, d, sqrt 2), which is
\*     a = (y1 - y0) / (2 d^2),  b = (y1 - y0) / (2 d),  c = y0.
PolyFit(hist) ==
    LET ys == DOMAIN hist
        x  == YearsNorm(hist)
        S(k) == QInt(SumInt([y \in ys |-> IPow(x[y], k)], ys))
        T(k) == SumQ([y \in ys |-> QMul(QInt(IPow(x[y], k)), hist[y])], ys)
    IN  IF Cardinality(ys) = 2
        THEN LET y0 == MinOf(ys)
                 y1 == MaxOf(ys)
                 d  == QInt(y1 - y0)
                 dy == QSub(hist[y1], hist[y0])
             IN  << QDiv(dy, QMul(QInt(2), QMul(d, d))),
                    QDiv(dy, QMul(QInt(2), d)),
                    hist[y0] >>
        ELSE LET m == << <<S(4), S(3), S(2)>>,
                         <<S(3), S(2), S(1)>>,
                         <<S(2), S(1), S(0)>> >>
                 b == <<T(2), T(1), T(0)>>
                 det == Det3(m)
             IN  [i \in 1..3 |-> QDiv(Det3(WithColumn(m, i, b)), det)]

\* The two fitted models and the first historical year.
FitModels(hist) ==
    [first |-> MinOf(DOMAIN hist), lin |-> LinRegress(hist), poly |-> PolyFit(hist)]

\* predicted = (poly_pred + linear_pred) / 2.0 at forecast_year.
Predicted(fit, forecast_year) ==
    LET off == QInt(forecast_year - fit.first)
        poly_pred == QAdd(QMul(QAdd(QMul(fit.poly[1], off), fit.poly[2]), off),
                          fit.poly[3])
        linear_pred == QAdd(fit.lin.intercept, QMul(fit.lin.slope, off))
    IN  QDiv(QAdd(poly_pred, linear_pred), QInt(2))

\* Clamp without the clamp: the prediction is kept (a faulty variant).
ClampUnclamped(predicted, prev_value) == predicted

\* if predicted < prev_value: predicted = prev_value
Clamp(predicted, prev_value) ==
    IF QLt(predicted, prev_value) THEN prev_value ELSE predicted

\* round(x) of a Python float: to the nearest integer, a half to the even
\* neighbour; a value that is exactly k + 1/2 as a rational may reach
\* round() a rounding error away from the half, on either side.
RoundChoices(x) ==
    LET fl == QFloor(x)
        twice == 2 * (x[1] - fl * x[2])
    IN  IF twice = x[2] THEN {fl, fl + 1}
        ELSE IF twice < x[2] THEN {fl} ELSE {fl + 1}

RECURSIVE ForecastFrom(_, _, _)
\* The loop of _forecast_level from forecast_year on: the possible value
\* sequences for forecast_year .. 2030.
ForecastFrom(fit, forecast_year, prev_value) ==
    IF forecast_year > LastForecastYear THEN {<<>>}
    ELSE UNION { { <<rounded>> \o rest :
                     rest \in ForecastFrom(fit, forecast_year + 1, QInt(rounded)) } :
                 rounded \in RoundChoices(Clamp(Predicted(fit, forecast_year),
                                                prev_value)) }

\* The forecasts _forecast_level can return for a history of >= 2 years.
ForecastLevel(hist) ==
    LET seqs == ForecastFrom(FitModels(hist), FirstForecastYear,
                             hist[MaxOf(DOMAIN hist)])
    IN  { [y \in ForecastYears |-> s[y - FirstForecastYear + 1]] : s \in seqs }

-----------------------------------------------------------------------------
(* _forecast_level as a function of one level's history.                   *)

Unused == <<>>

\* No extraction script takes part.
ScriptsIdle ==
    /\ salary_data = Unused
    /\ org_stats = Unused
    /\ gender_data = Unused
    /\ work_arrangements = Unused
    /\ master_dataset = Unused
    /\ master_file = Unused
    /\ year_files = Unused

\* download_pdfs.py takes no part.
DownloadIdle ==
    /\ docs = Unused
    /\ docs_at_start = Unused
    /\ results = Unused
    /\ prev_results = Unused
    /\ requested = Unused
    /\ opened = Unused
    /\ checksummed = Unused
    /\ pdf_idx = 0
    /\ runs = 0

\* No extraction is running.
ExtractIdle ==
    /\ extractor = Unused
    /\ document = Unused
    /\ position = 0
    /\ extracted = Unused
    /\ pdf_files = Unused
    /\ parse_pos = 0
    /\ errors = Unused
    /\ script_outcome = Unused

\* Nothing is being verified and no runs are going on side by side.
AuxIdle ==
    /\ stdout = Unused
    /\ procs = Unused
    /\ events = Unused
    /\ forecast_by_level = Unused
    /\ legacy_files = Unused

FirstSurveyYear == 2020
NumSurveyYears == 4
SurveyYears == FirstSurveyYear .. (FirstSurveyYear + NumSurveyYears - 1)

MaxSalaryStep == 4
\* Salaries of a history passed to _forecast_level (Dict[int, float]):
\* 100, 110, .. in steps of 10, and the non-integral 130.25.
LevelSalaries == { Q(100 + 10 * k, 1) : k \in 0 .. MaxSalaryStep } \cup { Q(521, 4) }

\* Histories with at least two observations.
LevelHistories ==
    UNION { [ys -> LevelSalaries] :
            ys \in { s \in SUBSET SurveyYears : Cardinality(s) >= 2 } }

InitLevel ==
    /\ pc = "call"
    /\ historical \in LevelHistories
    /\ forecast_data = Unused
    /\ master_data = Unused
    /\ years_available = Unused
    /\ salary_by_level = Unused
    /\ forecasts = Unused
    /\ forecasts_file = Unused
    /\ ScriptsIdle
    /\ DownloadIdle
    /\ ExtractIdle
    /\ AuxIdle

\* forecast_data = self._forecast_level(historical, level)
CallForecastLevel ==
    /\ pc = "call"
    /\ \E f \in ForecastLevel(historical) : forecast_data' = f
    /\ pc' = "returned"
    /\ UNCHANGED <<historical, master_data, years_available, salary_by_level, forecasts, forecasts_file>>
    /\ UNCHANGED <<scriptVars, downloadVars, extractVars, auxVars, otherVars>>

NextLevel == CallForecastLevel

SpecLevel == InitLevel /\ [][NextLevel]_vars

\* The salary of the latest historical year.
LastKnown(hist) == hist[MaxOf(DOMAIN hist)]

\* C1: _forecast_level returns an integer for exactly the years 2024..2030,
\* and each value after 2024 is at least the value of the year before it,
\* whatever the blended prediction of that year is.
C1_HorizonMonotone ==
    pc = "returned" =>
        /\ DOMAIN forecast_data = 2024 .. 2030
        /\ \A y \in DOMAIN forecast_data : forecast_data[y] \in Int
        /\ \A y \in DOMAIN forecast_data :
               y > 2024 => forecast_data[y] >= forecast_data[y - 1]

\* A returned forecast in which the blended prediction of some year after
\* 2024 lies below the value stored for the year before it.
C1_Witness ==
    /\ pc = "returned"
    /\ \E y \in 2025 .. 2030 :
           QLt(Predicted(FitModels(historical), y), QInt(forecast_data[y - 1]))

\* C2: every value _forecast_level returns is at least the salary of the
\* latest historical year, for integral and non-integral salaries alike.
C2_AtLeastLastKnown ==
    pc = "returned" =>
        \A y \in DOMAIN forecast_data :
            QLe(LastKnown(historical), QInt(forecast_data[y]))

-----------------------------------------------------------------------------
(* salary_master.json as loaded by json.load, and _extract_historical.     *)

\* A key of by_year is the decimal string of a year; the string str(y) is
\* written StrKey(y) and the integer key y of a Python dict IntKey(y).
StrKey(y) == <<"str", y>>
IntKey(y) == <<"int", y>>
\* int(year_str)
PyInt(k) == k[2]

NoDict == <<>>   \* the empty dict {}

\* year_data.get(profession, {})
GetProfession(year_data, profession) ==
    IF profession \in DOMAIN year_data THEN year_data[profession] ELSE NoDict

\* _extract_historical(profession, level): year -> salary over the years of
\* by_year whose entry lists the level.
ExtractHistorical(md, profession, level) ==
    LET ks == { k \in DOMAIN md.by_year :
                  level \in DOMAIN GetProfession(md.by_year[k], profession) }
    IN  [y \in { PyInt(k) : k \in ks } |->
            GetProfession(md.by_year[StrKey(y)], profession)[level]]

\* np.array(salaries) and float(...): the integers of the file as floats.
AsFloats(hist) == [y \in DOMAIN hist |-> QInt(hist[y])]

-----------------------------------------------------------------------------
(* SalaryForecaster._harmonize_group_growth.                               *)

\* level.startswith(group_prefix), for the one-letter prefixes 'P' and 'M'
\* of the level codes.
LevelTrack == [l \in {"P1", "P2", "P3", "P4", "P5", "P6",
                      "M1", "M2", "M3", "M4", "M5"} |->
                 IF l \in {"M1", "M2", "M3", "M4", "M5"} THEN "M" ELSE "P"]
\* StartsWith that takes every level for a level of the group (a faulty
\* variant).
StartsWithAny(level, group_prefix) == TRUE

StartsWith(level, group_prefix) == LevelTrack[level] = group_prefix

\* level_info: the group levels of salary_by_level that have a history, with
\* last_known (the salary of the latest year) and pred_final
\* (forecast.get('2030', last_known)).
LevelInfo(md, profession, sbl, group_prefix) ==
    LET ls == { l \in DOMAIN sbl :
                  /\ StartsWith(l, group_prefix)
                  /\ DOMAIN ExtractHistorical(md, profession, l) # {} }
    IN  [l \in ls |->
            LET last_known == LastKnown(ExtractHistorical(md, profession, l))
            IN  [last_known |-> last_known,
                 pred_final |-> IF LastForecastYear \in DOMAIN sbl[l]
                                THEN sbl[l][LastForecastYear] ELSE last_known]]

OutlierLow == Q(2, 10)    \* 0.2
OutlierHigh == Q(10, 1)   \* 10

\* IsOutlier without the range test: every factor counts (a faulty variant).
IsOutlierNever(factor) == FALSE

\* not (0.2 < factor < 10)
IsOutlier(factor) == ~ (QLt(OutlierLow, factor) /\ QLt(factor, OutlierHigh))

\* factors: one entry per level of level_info with last_known > 0 whose
\* factor pred_final / last_known is no outlier (level -> factor).
Factors(info) ==
    LET ls == { l \in DOMAIN info :
                  /\ info[l].last_known > 0
                  /\ ~ IsOutlier(Q(info[l].pred_final, info[l].last_known)) }
    IN  [l \in ls |-> Q(info[l].pred_final, info[l].last_known)]

RECURSIVE SortedValues(_, _)
\* The values f[x], x in S, in non-decreasing order (with repetitions).
SortedValues(f, S) ==
    IF S = {} THEN <<>>
    ELSE LET m == CHOOSE x \in S : \A y \in S : QLe(f[x], f[y])
         IN  <<f[m]>> \o SortedValues(f, S \ {m})

\* np.median of a non-empty list: the middle value, or the mean of the two
\* middle values.
Median(sorted) ==
    LET n == Len(sorted)
    IN  IF n % 2 = 1 THEN sorted[(n + 1) \div 2]
        ELSE QDiv(QAdd(sorted[n \div 2], sorted[n \div 2 + 1]), QInt(2))

\* BelowTarget that never finds a level below the target (a faulty variant).
BelowTargetNever(info_l, median_factor) == FALSE

\* pred < target_final, where target_final = last * median_factor.  When the
\* two sides differ as rationals the doubles compare the same way.  They
\* are equal as rationals only when the level's own factor pred / last is
\* the median; the median is then the double nearest to pred / last, and the
\* doubles decide whether its product with last rounds above pred.
BelowTarget(info_l, median_factor) ==
    LET target == QMul(QInt(info_l.last_known), median_factor)
        pred   == QInt(info_l.pred_final)
    IN  IF target = pred
        THEN /\ info_l.last_known > 0
             /\ info_l.pred_final > 0
             /\ FloatProductExceeds(info_l.pred_final, info_l.last_known,
                                    info_l.pred_final, info_l.last_known)
        ELSE QLt(pred, target)

NumHorizonYears == LastForecastYear - FirstForecastYear + 1   \* n_years

\* Interpolated with idx counted from 0 instead of 1 (a faulty variant).
InterpolatedFromZero(info_l, median_factor, y) ==
    LET last   == QInt(info_l.last_known)
        target == QMul(last, median_factor)
    IN  QAdd(last, QMul(QSub(target, last),
                        Q(y - FirstForecastYear, NumHorizonYears)))

\* val = last + (target_final - last) * frac, frac = idx / n_years, for the
\* idx-th horizon year.
Interpolated(info_l, median_factor, y) ==
    LET last   == QInt(info_l.last_known)
        target == QMul(last, median_factor)
        frac   == Q(y - FirstForecastYear + 1, NumHorizonYears)
    IN  QAdd(last, QMul(QSub(target, last), frac))

\* new_vals: year -> int(round(val)); the possible dicts.
NewVals(info_l, median_factor) ==
    LET opts == [y \in ForecastYears |->
                    RoundChoices(Interpolated(info_l, median_factor, y))]
    IN  Products(opts, ForecastYears)

\* The group's target growth factor, when some factor qualifies.
MedianFactor(info) ==
    Median(SortedValues(Factors(info), DOMAIN Factors(info)))

\* Replaced that passes over the levels whose factor was discarded (a faulty
\* variant).
ReplacedQualifying(info) ==
    IF DOMAIN Factors(info) = {} THEN {}
    ELSE { l \in DOMAIN Factors(info) :
             BelowTarget(info[l], MedianFactor(info)) }

\* The levels whose trajectory the harmonizer replaces.
Replaced(info) ==
    IF DOMAIN Factors(info) = {} THEN {}
    ELSE { l \in DOMAIN info : BelowTarget(info[l], MedianFactor(info)) }

\* _harmonize_group_growth(profession, salary_by_level, group_prefix): the
\* forecast sets it can return.
HarmonizeGroupGrowth(md, profession, sbl, group_prefix) ==
    LET info == LevelInfo(md, profession, sbl, group_prefix)
        opts == [l \in DOMAIN sbl |->
                    IF l \in Replaced(info)
                    THEN NewVals(info[l], MedianFactor(info))
                    ELSE {sbl[l]}]
    IN  Products(opts, DOMAIN sbl)

-----------------------------------------------------------------------------
(* _harmonize_group_growth as a function of a forecast set.                *)

GroupLevelSeq == <<"M1", "M2", "M3", "M4", "M5">>
MaxGroupLevels == 3
HarmonizeLevels == { GroupLevelSeq[i] : i \in 1 .. MaxGroupLevels }

\* A level's case: not forecast, or <<last known salary, 2030 forecast>>.
\* The quotients forecast / last include 0.2 and 10 themselves, values
\* beyond them, growth and decline.
LevelCases ==
    {<<>>, <<90, 93>>, <<100, 14>>, <<100, 20>>, <<100, 110>>, <<100, 1000>>,
     <<100, 1200>>, <<150, 30>>, <<150, 75>>, <<150, 195>>}

\* The case of P1, a level outside the group.
OtherCases == {<<>>, <<100, 100>>}

\* The forecast of a case: the 2030 value from 2024 on.
FlatForecast(pred) == [y \in ForecastYears |-> pred]

LastSurveyYear == 2023

\* The master data and forecast set of an assignment of cases to levels.
CaseMaster(cases) ==
    [by_year |->
        [k \in {StrKey(LastSurveyYear)} |->
            [ENG |-> [l \in { l \in DOMAIN cases : cases[l] # <<>> } |->
                         cases[l][1]],
             GEO |-> NoDict]]]
CaseForecasts(cases) ==
    [l \in { l \in DOMAIN cases : cases[l] # <<>> } |-> FlatForecast(cases[l][2])]

InitHarmonize ==
    /\ pc = "call"
    /\ \E group \in [HarmonizeLevels -> LevelCases], other \in OtherCases :
          LET cases == ("P1" :> other) @@ group
          IN  /\ master_data = CaseMaster(cases)
              /\ salary_by_level = CaseForecasts(cases)
    /\ forecast_by_level = salary_by_level
    /\ legacy_files = Unused
    /\ stdout = Unused
    /\ procs = Unused
    /\ events = Unused
    /\ historical = Unused
    /\ forecast_data = Unused
    /\ years_available = Unused
    /\ forecasts = Unused
    /\ forecasts_file = Unused
    /\ ScriptsIdle
    /\ DownloadIdle
    /\ ExtractIdle

\* self._harmonize_group_growth(profession, salary_by_level, group_prefix='M'):
\* the trajectories are replaced in the dict passed in, and that dict is
\* returned.
CallHarmonize ==
    /\ pc = "call"
    /\ \E r \in HarmonizeGroupGrowth(master_data, "ENG", salary_by_level, "M") :
          /\ forecasts' = r
          /\ salary_by_level' = r
    /\ pc' = "returned"
    /\ UNCHANGED <<historical, forecast_data, master_data, years_available,
                   forecasts_file>>
    /\ UNCHANGED <<scriptVars, downloadVars, extractVars, auxVars, otherVars>>

NextHarmonize == CallHarmonize

SpecHarmonize == InitHarmonize /\ [][NextHarmonize]_vars

\* level_info of the call, from the forecasts as they were passed in.
CallInfo == LevelInfo(master_data, "ENG", forecast_by_level, "M")

\* last_known * median_factor of a level, as a rational.
TargetFinal(info_l, median_factor) ==
    QMul(QInt(info_l.last_known), median_factor)

\* v is an integer nearest to x.
NearestInt(v, x) ==
    /\ QLe(QSub(x, Q(1, 2)), QInt(v))
    /\ QLe(QInt(v), QAdd(x, Q(1, 2)))

\* C4: every group level whose 2030 forecast is below last_known *
\* median_factor gets, for idx = 1..7 (2024..2030), the value
\* round(last_known + (last_known * median_factor - last_known) * idx / 7);
\* its 2030 value is last_known * median_factor within rounding.
C4_BelowTargetInterpolated ==
    (pc = "returned" /\ DOMAIN Factors(CallInfo) # {}) =>
        \A l \in DOMAIN CallInfo :
            LET last   == QInt(CallInfo[l].last_known)
                target == TargetFinal(CallInfo[l], MedianFactor(CallInfo))
            IN  QLt(QInt(CallInfo[l].pred_final), target) =>
                    /\ DOMAIN forecasts[l] = ForecastYears
                    /\ \A idx \in 1 .. 7 :
                           NearestInt(forecasts[l][FirstForecastYear + idx - 1],
                                      QAdd(last, QMul(QSub(target, last),
                                                      Q(idx, 7))))
                    /\ NearestInt(forecasts[l][LastForecastYear], target)

\* A level below the target has been replaced, and its target is no integer.
C4_Witness ==
    /\ pc = "returned"
    /\ DOMAIN Factors(CallInfo) # {}
    /\ \E l \in DOMAIN CallInfo :
          /\ QLt(QInt(CallInfo[l].pred_final),
                 TargetFinal(CallInfo[l], MedianFactor(CallInfo)))
          /\ ~ QIsInt(TargetFinal(CallInfo[l], MedianFactor(CallInfo)))
          /\ forecasts[l] # forecast_by_level[l]

\* C5: the forecast of every group level whose 2030 forecast is at or above
\* last_known * median_factor is left unchanged in every horizon year.
C5_AtOrAboveUnchanged ==
    (pc = "returned" /\ DOMAIN Factors(CallInfo) # {}) =>
        \A l \in DOMAIN CallInfo :
            QLe(TargetFinal(CallInfo[l], MedianFactor(CallInfo)),
                QInt(CallInfo[l].pred_final))
                => forecasts[l] = forecast_by_level[l]

\* The levels whose factor pred_final / last_known lies strictly between 0.2
\* and 10 (in integers: last < 5 * pred and pred < 10 * last).
Qualifying ==
    { l \in DOMAIN CallInfo :
        /\ CallInfo[l].last_known > 0
        /\ CallInfo[l].last_known < 5 * CallInfo[l].pred_final
        /\ CallInfo[l].pred_final < 10 * CallInfo[l].last_known }
OwnFactor(l) == Q(CallInfo[l].pred_final, CallInfo[l].last_known)

\* The level holding the k-th smallest factor of the qualifying levels.
KthQualifying(k) ==
    CHOOSE l \in Qualifying :
        /\ Cardinality({ m \in Qualifying : QLt(OwnFactor(m), OwnFactor(l)) }) < k
        /\ Cardinality({ m \in Qualifying : QLe(OwnFactor(m), OwnFactor(l)) }) >= k

\* The median of the qualifying levels' factors.
QualifyingMedian ==
    LET n == Cardinality(Qualifying)
    IN  QDiv(QAdd(OwnFactor(KthQualifying((n + 1) \div 2)),
                  OwnFactor(KthQualifying(n \div 2 + 1))), QInt(2))

\* C6: the median the harmonizer acts on is the median of exactly the
\* factors strictly between 0.2 and 10: with no such factor the forecast set
\* is returned unchanged; otherwise a level whose 2030 forecast is below
\* last_known times that median ends at last_known times that median
\* (within rounding) and a level above it is unchanged, whatever the factors
\* at or beyond 0.2 and 10 are.
C6_MedianOfQualifying ==
    pc = "returned" =>
        IF Qualifying = {} THEN forecasts = forecast_by_level
        ELSE \A l \in DOMAIN CallInfo :
                LET target == TargetFinal(CallInfo[l], QualifyingMedian)
                    pred   == QInt(CallInfo[l].pred_final)
                IN  /\ QLt(pred, target) =>
                           NearestInt(forecasts[l][LastForecastYear], target)
                    /\ QLt(target, pred) => forecasts[l] = forecast_by_level[l]

\* Some level qualifies, another has a factor of exactly 10, a third has a
\* factor of 0.2 or less, and a trajectory has been replaced.
C6_Witness ==
    /\ pc = "returned"
    /\ Qualifying # {}
    /\ \E l \in DOMAIN CallInfo :
          CallInfo[l].pred_final = 10 * CallInfo[l].last_known
    /\ \E l \in DOMAIN CallInfo :
          5 * CallInfo[l].pred_final <= CallInfo[l].last_known
    /\ \E l \in Qualifying : forecasts[l] # forecast_by_level[l]

\* C7 as stated: no level of the group whose own factor is below the group
\* median factor has a 2030 value below last_known * median factor.
C7_FinalNotBelowTarget ==
    (pc = "returned" /\ DOMAIN Factors(CallInfo) # {}) =>
        \A l \in DOMAIN CallInfo :
            (/\ CallInfo[l].last_known > 0
             /\ QLt(OwnFactor(l), MedianFactor(CallInfo)))
                => QLe(TargetFinal(CallInfo[l], MedianFactor(CallInfo)),
                       QInt(forecasts[l][LastForecastYear]))

\* C7 amended: no level of the group whose own factor is below the group
\* median factor has a 2030 value more than 1/2 below last_known * median
\* factor (it is that product rounded to an integer).
C7_FinalNotBelowRoundedTarget ==
    (pc = "returned" /\ DOMAIN Factors(CallInfo) # {}) =>
        \A l \in DOMAIN CallInfo :
            (/\ CallInfo[l].last_known > 0
             /\ QLt(OwnFactor(l), MedianFactor(CallInfo)))
                => QLe(QSub(TargetFinal(CallInfo[l], MedianFactor(CallInfo)),
                            Q(1, 2)),
                       QInt(forecasts[l][LastForecastYear]))

\* A level with a factor below the median ends below last_known * median
\* factor, by less than 1/2.
C7_Witness ==
    /\ pc = "returned"
    /\ DOMAIN Factors(CallInfo) # {}
    /\ \E l \in DOMAIN CallInfo :
          /\ CallInfo[l].last_known > 0
          /\ QLt(OwnFactor(l), MedianFactor(CallInfo))
          /\ QLt(QInt(forecasts[l][LastForecastYear]),
                 TargetFinal(CallInfo[l], MedianFactor(CallInfo)))

-----------------------------------------------------------------------------
(* SalaryForecaster.forecast_all and save_forecasts.                       *)

\* ForecastLevelSeq with P6 among the levels (a faulty variant).
ForecastLevelSeqAll ==
    <<"P1", "P2", "P3", "P4", "P5", "P6", "M1", "M2", "M3", "M4", "M5">>

\* The levels forecast_all loops over.
ForecastLevelSeq == <<"P1", "P2", "P3", "P4", "P5", "M1", "M2", "M3", "M4", "M5">>
ForecastLevelSet == { ForecastLevelSeq[i] : i \in DOMAIN ForecastLevelSeq }

\* Forecastable with a threshold of three observations (a faulty variant).
ForecastableFromThree(hist) == Cardinality(DOMAIN hist) >= 3

\* not (len(historical) < 2)
Forecastable(hist) == Cardinality(DOMAIN hist) >= 2

\* The loop of forecast_all over the levels: the possible salary_by_level.
\* (The growth percentage printed for each level divides by the level's
\* last listed salary; the salaries of the master data are positive.)
LevelForecasts(md, profession) ==
    LET ls == { l \in ForecastLevelSet :
                  Forecastable(ExtractHistorical(md, profession, l)) }
        opts == [l \in ls |->
                    ForecastLevel(AsFloats(ExtractHistorical(md, profession, l)))]
    IN  Products(opts, ls)

RECURSIVE SortedSeq(_)
\* sorted(...) of a set of integers.
SortedSeq(S) ==
    IF S = {} THEN <<>> ELSE <<MinOf(S)>> \o SortedSeq(S \ {MinOf(S)})

\* years_available = sorted([int(y) for y in by_year.keys()])
YearsAvailable(md) == SortedSeq({ PyInt(k) : k \in DOMAIN md.by_year })

\* Master data of the forecaster: each level of InputGroupLevels has an ENG salary in any
\* subset of the years InputYears, P1 a salary of 100 in any subset of the
\* first and last year; P6 and a GEO level are listed in every year.
MaxInputGroupLevels == 2
InputGroupLevels == { GroupLevelSeq[i] : i \in 1 .. MaxInputGroupLevels }
InputYears == {FirstSurveyYear, LastSurveyYear - 1, LastSurveyYear}
InputSalaries == {100, 110, 130}
LevelTables == UNION { [ys -> InputSalaries] : ys \in SUBSET InputYears }
OtherTables ==
    { h \in LevelTables :
        /\ DOMAIN h \subseteq {FirstSurveyYear, LastSurveyYear}
        /\ \A y \in DOMAIN h : h[y] = 100 }

InputMaster(tab) ==
    [by_year |->
        [k \in { StrKey(y) : y \in InputYears } |->
            [ENG |-> [l \in { l \in DOMAIN tab : PyInt(k) \in DOMAIN tab[l] }
                               \cup {"P6"} |->
                         IF l = "P6" THEN 130 ELSE tab[l][PyInt(k)]],
             GEO |-> [l \in {"P1"} |-> 100]]]]

InitForecast ==
    /\ pc = "forecast_all"
    /\ \E group \in [InputGroupLevels -> LevelTables], other \in OtherTables :
          master_data = InputMaster(("P1" :> other) @@ group)
    /\ years_available = YearsAvailable(master_data)
    /\ historical = Unused
    /\ forecast_data = Unused
    /\ salary_by_level = Unused
    /\ forecasts = Unused
    /\ forecasts_file = Unused
    /\ ScriptsIdle
    /\ DownloadIdle
    /\ ExtractIdle
    /\ AuxIdle

\* forecast_all, the loop over the levels: each level with at least two
\* observations is forecast, the others are skipped.
ForecastLoop ==
    /\ pc = "forecast_all"
    /\ \E sbl \in LevelForecasts(master_data, "ENG") : salary_by_level' = sbl
    /\ forecast_by_level' = salary_by_level'
    /\ pc' = "harmonize"
    /\ UNCHANGED <<historical, forecast_data, master_data, years_available,
                   forecasts, forecasts_file>>
    /\ UNCHANGED <<scriptVars, downloadVars, extractVars, auxVars, legacy_files>>

\* forecast_all: the forecast set is harmonized for the group 'M', in place,
\* and stored in self.forecasts: salary_by_level is bound to the dict
\* _harmonize_group_growth returns, the one it was passed.
HarmonizeStep ==
    /\ pc = "harmonize"
    /\ \E r \in HarmonizeGroupGrowth(master_data, "ENG", salary_by_level, "M") :
          /\ forecasts' = r
          /\ salary_by_level' = r
    /\ pc' = "save"
    /\ UNCHANGED <<historical, forecast_data, master_data, years_available,
                   forecasts_file>>
    /\ UNCHANGED <<scriptVars, downloadVars, extractVars, auxVars, otherVars>>

\* save_forecasts: the metadata and the ENG forecasts are written.
SaveForecasts ==
    /\ pc = "save"
    /\ forecasts_file' =
           [metadata |-> [forecast_years |-> SortedSeq(ForecastYears),
                          base_years |-> years_available],
            ENG |-> forecasts]
    /\ pc' = "plots"
    /\ UNCHANGED <<historical, forecast_data, master_data, years_available,
                   salary_by_level, forecasts>>
    /\ UNCHANGED <<scriptVars, downloadVars, extractVars, auxVars, otherVars>>

NextForecast == ForecastLoop \/ HarmonizeStep \/ SaveForecasts

SpecForecast == InitForecast /\ [][NextForecast]_vars

\* The observations of a level in the ENG tables of the master data.
Observations(l) ==
    { k \in DOMAIN master_data.by_year : l \in DOMAIN master_data.by_year[k].ENG }

\* C3: in the forecast set forecast_all produces, after the harmonization,
\* every level's values are non-decreasing over 2024..2030 and none is below
\* the level's last known salary.
C3_ForecastSetMonotone ==
    pc \in {"save", "plots"} =>
        \A l \in DOMAIN forecasts :
            /\ \A y \in ForecastYears :
                   forecasts[l][y] >=
                       LastKnown(ExtractHistorical(master_data, "ENG", l))
            /\ \A y \in ForecastYears \ {FirstForecastYear} :
                   forecasts[l][y] >= forecasts[l][y - 1]

\* The harmonization has replaced a trajectory, and some level whose
\* salaries fell over the survey years stays at its last known salary.
C3_Witness ==
    /\ pc = "save"
    /\ \E l \in DOMAIN forecasts : forecasts[l] # forecast_by_level[l]
    /\ \E l \in DOMAIN forecasts :
          LET hist == ExtractHistorical(master_data, "ENG", l)
          IN  /\ hist[MinOf(DOMAIN hist)] > LastKnown(hist)
              /\ forecasts[l][FirstForecastYear] = LastKnown(hist)

\* The levels of the loop with two or more observations.
TwoOrMoreObservations ==
    { l \in ForecastLevelSet : Cardinality(Observations(l)) >= 2 }

\* C8: a level of the loop with fewer than two observations is left out of
\* the forecast set, and exactly the other levels of the loop are forecast
\* (a value for every horizon year), harmonized and saved.
C8_FewObservationsSkipped ==
    /\ pc = "harmonize" => DOMAIN salary_by_level = TwoOrMoreObservations
    /\ pc = "save" => DOMAIN forecasts = TwoOrMoreObservations
    /\ pc = "plots" =>
          /\ DOMAIN forecasts_file.ENG = TwoOrMoreObservations
          /\ \A l \in DOMAIN forecasts_file.ENG :
                 DOMAIN forecasts_file.ENG[l] = ForecastYears

\* The forecasts are saved, a level of the loop with a single observation
\* is left out and another level is in the file.
C8_Witness ==
    /\ pc = "plots"
    /\ \E l \in ForecastLevelSet :
          /\ Cardinality(Observations(l)) = 1
          /\ l \notin DOMAIN forecasts_file.ENG
    /\ DOMAIN forecasts_file.ENG # {}


-----------------------------------------------------------------------------
(* JSON values and files.                                                  *)

\* The values stored under org_count, gender and work_arrangements: None
\* (null), an int, or a dict given by its items (key -> value).
Null == [kind |-> "null"]
JInt(n) == [kind |-> "int", val |-> n]
JDict(items) == [kind |-> "dict", items |-> items]

\* d.get(key): None when the key is missing.
Get(d, key) == IF key \in DOMAIN d THEN d[key] ELSE Null

\* d[key] = value
SetItem(d, key, value) ==
    [k \in DOMAIN d \cup {key} |-> IF k = key THEN value ELSE d[k]]

\* A file that does not exist.
NoFile == [kind |-> "absent"]

\* The name json.dump writes for a key: a str key is written as it is, an
\* int key as its decimal string.
JsonKey(k) == StrKey(PyInt(k))

\* json.dump of a dict: the set of its "name": value members.
JsonObject(d) == { <<JsonKey(k), d[k]>> : k \in DOMAIN d }

\* json.load of an object: a dict keyed by the names (a repeated name keeps
\* one of its values).
JsonParseObject(members) ==
    [k \in { m[1] : m \in members } |->
        (CHOOSE m \in members : m[1] = k)[2]]

\* json.dump(master_data, f) and json.load(f) for salary_master.json.
JsonDump(master) ==
    [metadata |-> master.metadata, by_year |-> JsonObject(master.by_year)]
JsonLoad(file) ==
    [metadata |-> file.metadata, by_year |-> JsonParseObject(file.by_year)]

-----------------------------------------------------------------------------
(* SalaryTableParser.save_master_dataset and load_master_data.             *)

CAREER_LEVELS ==
    [P |-> <<"P1", "P2", "P3", "P4", "P5", "P6">>,
     M |-> <<"M1", "M2", "M3", "M4", "M5">>]

\* YearKey without str(): the int itself as the key (a faulty variant).
YearKeyInt(year) == IntKey(year)

\* str(year), the key of a year in by_year.
YearKey(year) == StrKey(year)

\* The dict save_master_dataset builds from the parser's fields.
MasterDataset(sd, os, gd, wa) ==
    [metadata |-> [years |-> SortedSeq(DOMAIN sd),
                   professions |-> <<"ENG", "GEO">>,
                   levels |-> CAREER_LEVELS],
     by_year |->
        [k \in { YearKey(year) : year \in DOMAIN sd } |->
            [ENG |-> sd[PyInt(k)].ENG,
             GEO |-> sd[PyInt(k)].GEO,
             org_count |-> Get(os, PyInt(k)),
             gender |-> Get(gd, PyInt(k)),
             work_arrangements |-> Get(wa, PyInt(k))]]]

\* What parse_year can leave in the parser's fields for the years of the
\* PDFs: salary tables per profession (salary_data), and, where the text
\* matched, an organization count, a gender split and -- from 2023 on -- a
\* remote-work percentage.
DocYears == {FirstSurveyYear + 1, LastSurveyYear}
ParsedEng == {NoDict, [l \in {"P1"} |-> 68000],
              [l \in {"P1", "M1"} |-> IF l = "P1" THEN 68000 ELSE 92000]}
ParsedGeo == {NoDict, [l \in {"P1"} |-> 64000]}
GenderSplit(eng, geo) ==
    JDict([k \in {"engineers_pct", "geoscientists_pct"} |->
              IF k = "engineers_pct" THEN JInt(eng) ELSE JInt(geo)])
RemotePct(pct) == JDict([k \in {"remote_or_hybrid_pct"} |-> JInt(pct)])

\* The parser's fields after parse_year has run for some of the years.
ParsedSalaryData ==
    UNION { [ys -> [ENG : ParsedEng, GEO : ParsedGeo]] : ys \in SUBSET DocYears }
ParsedFields ==
    { f \in [salary_data : ParsedSalaryData,
             org_years : SUBSET DocYears,
             gender_years : SUBSET DocYears,
             remote_years : SUBSET {LastSurveyYear}] :
        /\ f.org_years \subseteq DOMAIN f.salary_data
        /\ f.gender_years \subseteq DOMAIN f.salary_data
        /\ f.remote_years \subseteq DOMAIN f.salary_data }
OrgStats(f) == [y \in f.org_years |-> JInt(169)]
GenderData(f) == [y \in f.gender_years |-> GenderSplit(92, 8)]
WorkArrangements(f) == [y \in f.remote_years |-> RemotePct(30)]

InitRoundTrip ==
    /\ pc = "parsed"
    /\ \E f \in ParsedFields :
          /\ salary_data = f.salary_data
          /\ org_stats = OrgStats(f)
          /\ gender_data = GenderData(f)
          /\ work_arrangements = WorkArrangements(f)
    /\ master_dataset = Unused
    /\ master_file = NoFile
    /\ year_files = Unused
    /\ historical = Unused
    /\ forecast_data = Unused
    /\ master_data = Unused
    /\ years_available = Unused
    /\ salary_by_level = Unused
    /\ forecasts = Unused
    /\ forecasts_file = Unused
    /\ DownloadIdle
    /\ ExtractIdle
    /\ AuxIdle

\* save_master_dataset: the dict is built and dumped to salary_master.json.
SaveMasterDataset ==
    /\ pc = "parsed"
    /\ master_dataset' =
           MasterDataset(salary_data, org_stats, gender_data, work_arrangements)
    /\ master_file' = JsonDump(master_dataset')
    /\ pc' = "saved"
    /\ UNCHANGED <<historical, forecast_data, master_data, years_available,
                   salary_by_level, forecasts, forecasts_file>>
    /\ UNCHANGED <<salary_data, org_stats, gender_data, work_arrangements,
                   year_files>>
    /\ UNCHANGED <<downloadVars, extractVars, auxVars, otherVars>>

\* load_master_data: the file is read and the years are listed.
LoadMasterData ==
    /\ pc = "saved"
    /\ master_data' = JsonLoad(master_file)
    /\ years_available' = YearsAvailable(master_data')
    /\ pc' = "loaded"
    /\ UNCHANGED <<historical, forecast_data, salary_by_level, forecasts,
                   forecasts_file>>
    /\ UNCHANGED <<scriptVars, downloadVars, extractVars, auxVars, otherVars>>

NextRoundTrip == SaveMasterDataset \/ LoadMasterData

SpecRoundTrip == InitRoundTrip /\ [][NextRoundTrip]_vars

\* C9: the by_year mapping read back from salary_master.json is the one
\* save_master_dataset dumped: the same years, and for each year the same
\* level keys and salaries per profession (those of salary_data).
C9_MasterRoundTrip ==
    pc = "loaded" =>
        /\ master_data.by_year = master_dataset.by_year
        /\ { PyInt(k) : k \in DOMAIN master_data.by_year } = DOMAIN salary_data
        /\ \A y \in DOMAIN salary_data :
              /\ master_data.by_year[StrKey(y)].ENG = salary_data[y].ENG
              /\ master_data.by_year[StrKey(y)].GEO = salary_data[y].GEO

\* A dataset of two years with salaries for both professions, an extracted
\* organization count and a null one, has been written and read back.
C9_Witness ==
    /\ pc = "loaded"
    /\ Cardinality(DOMAIN master_data.by_year) = 2
    /\ \E k \in DOMAIN master_data.by_year :
          /\ DOMAIN master_data.by_year[k].ENG # {}
          /\ DOMAIN master_data.by_year[k].GEO # {}
          /\ master_data.by_year[k].org_count # Null
    /\ \E k \in DOMAIN master_data.by_year :
          master_data.by_year[k].org_count = Null

-----------------------------------------------------------------------------
(* The scripts that write data/salary_master.json: parse_salary_tables.py  *)
(* (the consolidation) and the year-specific extractions.                  *)

\* The outcomes of parse_all_years considered for a run of the script: per
\* year the PDF fails to parse, yields nothing, yields tables only, or
\* tables and every statistic.
ParseOutcomes ==
    { f \in ParsedFields :
        \A y \in DOMAIN f.salary_data :
            /\ f.salary_data[y].GEO = NoDict
            /\ f.salary_data[y].ENG \in {NoDict, [l \in {"P1"} |-> 68000]}
            /\ \/ /\ y \notin f.org_years \cup f.gender_years \cup f.remote_years
               \/ /\ f.salary_data[y].ENG # NoDict
                  /\ y \in f.org_years \cap f.gender_years
                  /\ y = LastSurveyYear => y \in f.remote_years }

\* UpdateMaster that writes a master file holding the entry alone, whether
\* or not there was a file (a faulty variant).
UpdateMasterAnew(file, year, entry) ==
    JsonDump([metadata |-> [years |-> <<year>>,
                            professions |-> <<"ENG", "GEO">>,
                            levels |-> CAREER_LEVELS],
              by_year |-> [k \in {StrKey(year)} |-> entry]])

\* master['by_year'][str(year)] = entry on the master file, when it exists.
UpdateMaster(file, year, entry) ==
    IF file = NoFile THEN file
    ELSE LET master == JsonLoad(file)
         IN  JsonDump([master EXCEPT
                          !.by_year = SetItem(master.by_year, StrKey(year), entry)])

\* self.data of the OCR extractors after _parse_salary_data: what the
\* patterns matched in the OCR text.  (The 2021 extractor has no pattern
\* for work arrangements.)
OcrTables == {NoDict, [l \in {"P1"} |-> 68890]}
OcrData(year, eng, org, gender, remote) ==
    [year |-> year,
     organization_stats |->
         IF org THEN [k \in {"num_organizations"} |-> JInt(169)] ELSE NoDict,
     compensation |-> [ENG |-> eng, GEO |-> NoDict],
     demographics |->
         [k \in {"gender"} |->
             IF gender THEN GenderSplit(92, 8) ELSE JDict(NoDict)],
     work_arrangements |->
         IF remote THEN [k \in {"remote_or_hybrid_pct"} |-> JInt(28)] ELSE NoDict]

\* The by_year entry the OCR extractors' save_results builds.
OcrEntry(data) ==
    [ENG |-> data.compensation.ENG,
     GEO |-> data.compensation.GEO,
     org_count |-> Get(data.organization_stats, "num_organizations"),
     gender |-> Get(data.demographics, "gender"),
     work_arrangements |->
         IF DOMAIN data.work_arrangements # {}
         THEN JDict(data.work_arrangements) ELSE Null]

\* The data of extract_2024_manual.py and legacy/extract_2021_manual.py
\* (the salaries of the levels P1 and M1 stand for the eleven levels).
ManualData2024 ==
    [year |-> 2024,
     organization_stats |->
         [k \in {"num_organizations", "num_incumbents"} |->
             IF k = "num_organizations" THEN JInt(184) ELSE JInt(11945)],
     compensation |->
         [ENG |-> [l \in {"P1", "M1"} |-> IF l = "P1" THEN 80436 ELSE 127593],
          GEO |-> [l \in {"P1", "M1"} |-> IF l = "P1" THEN 77500 ELSE 125000]],
     demographics |-> [k \in {"gender"} |-> GenderSplit(90, 10)],
     work_arrangements |->
         [k \in {"remote_or_hybrid_pct", "in_office_pct"} |->
             IF k = "remote_or_hybrid_pct" THEN JInt(28) ELSE JInt(72)]]
ManualData2021 ==
    [year |-> 2021,
     organization_stats |->
         [k \in {"num_organizations", "num_incumbents"} |->
             IF k = "num_organizations" THEN JInt(169) ELSE JInt(10821)],
     compensation |->
         [ENG |-> [l \in {"P1", "M1"} |-> IF l = "P1" THEN 68000 ELSE 92000],
          GEO |-> [l \in {"P1", "M1"} |-> IF l = "P1" THEN 65000 ELSE 88000]],
     demographics |-> [k \in {"gender"} |-> GenderSplit(92, 8)],
     work_arrangements |-> [k \in {"remote_or_hybrid_pct"} |-> Null]]

\* The by_year entry the manual scripts' save_results builds.
ManualEntry(data, notes) ==
    [ENG |-> data.compensation.ENG,
     GEO |-> data.compensation.GEO,
     org_count |-> data.organization_stats["num_organizations"],
     gender |-> data.demographics["gender"],
     work_arrangements |-> JDict(data.work_arrangements),
     notes |-> notes]

OcrYears == {2021, 2024}

\* scripts/data/, where legacy/extract_2021_manual.py looks for its files
\* (ROOT is the parent of legacy/): none of the scripts writes a master
\* file there; it holds none, or a copy of one save_master_dataset wrote.
LegacyMasterFiles ==
    {NoFile,
     JsonDump(MasterDataset([y \in {LastSurveyYear} |->
                                [ENG |-> [l \in {"P1"} |-> 68000],
                                 GEO |-> NoDict]],
                            NoDict, NoDict, NoDict))}

InitScripts ==
    /\ pc = "scripts"
    /\ master_file = NoFile
    /\ year_files = [y \in OcrYears |-> NoFile]
    /\ salary_data = Unused
    /\ org_stats = Unused
    /\ gender_data = Unused
    /\ work_arrangements = Unused
    /\ master_dataset = Unused
    /\ historical = Unused
    /\ forecast_data = Unused
    /\ master_data = Unused
    /\ years_available = Unused
    /\ salary_by_level = Unused
    /\ forecasts = Unused
    /\ forecasts_file = Unused
    /\ DownloadIdle
    /\ ExtractIdle
    /\ legacy_files \in [salary_data_2021 : {NoFile},
                         salary_master : LegacyMasterFiles]
    /\ forecast_by_level = Unused
    /\ stdout = Unused
    /\ procs = Unused
    /\ events = Unused

\* parse_salary_tables.py: parse_all_years parses the PDFs and writes the
\* master file anew.
ParseAllYears ==
    /\ \E f \in ParseOutcomes :
          master_file' = JsonDump(MasterDataset(f.salary_data, OrgStats(f),
                                                GenderData(f), WorkArrangements(f)))
    /\ UNCHANGED <<forecasterVars, downloadVars, extractVars, auxVars, otherVars>>
    /\ UNCHANGED <<salary_data, org_stats, gender_data, work_arrangements,
                   master_dataset, year_files>>

\* extract_2021_ocr.py: save_results writes salary_data_2021.json and sets
\* by_year['2021'] of the master file if that file exists.
SaveResults2021OCR ==
    /\ \E eng \in OcrTables, org \in BOOLEAN, gender \in BOOLEAN :
          LET data == OcrData(2021, eng, org, gender, FALSE)
          IN  /\ year_files' = [year_files EXCEPT ![2021] = data]
              /\ master_file' = UpdateMaster(master_file, 2021, OcrEntry(data))
    /\ UNCHANGED <<forecasterVars, downloadVars, extractVars, auxVars, otherVars>>
    /\ UNCHANGED <<salary_data, org_stats, gender_data, work_arrangements,
                   master_dataset>>

\* extract_2024_ocr.py: save_results writes salary_data_2024.json and sets
\* by_year['2024'] of the master file if that file exists.
SaveResults2024OCR ==
    /\ \E eng \in OcrTables, found \in BOOLEAN :
          LET data == OcrData(2024, eng, found, found, found)
          IN  /\ year_files' = [year_files EXCEPT ![2024] = data]
              /\ master_file' = UpdateMaster(master_file, 2024, OcrEntry(data))
    /\ UNCHANGED <<forecasterVars, downloadVars, extractVars, auxVars, otherVars>>
    /\ UNCHANGED <<salary_data, org_stats, gender_data, work_arrangements,
                   master_dataset>>

\* extract_2024_manual.py: save_results(extract_2024_data()).
SaveResults2024Manual ==
    /\ year_files' = [year_files EXCEPT ![2024] = ManualData2024]
    /\ master_file' =
           UpdateMaster(master_file, 2024,
                        ManualEntry(ManualData2024,
                                    "Manually extracted from image-based PDF"))
    /\ UNCHANGED <<forecasterVars, downloadVars, extractVars, auxVars, otherVars>>
    /\ UNCHANGED <<salary_data, org_stats, gender_data, work_arrangements,
                   master_dataset>>

\* legacy/extract_2021_manual.py: save_results(extract_2021_data()).  Its
\* OUTPUT_DIR is scripts/data/: the files of data/ are not touched.
SaveResults2021Manual ==
    /\ legacy_files' =
           [salary_data_2021 |-> ManualData2021,
            salary_master |->
                UpdateMaster(legacy_files.salary_master, 2021,
                             ManualEntry(ManualData2021,
                                         "Manually extracted from font-corrupted PDF"))]
    /\ UNCHANGED <<forecasterVars, downloadVars, extractVars, auxVars,
                   forecast_by_level>>
    /\ UNCHANGED scriptVars

NextScripts ==
    \/ ParseAllYears
    \/ SaveResults2021OCR
    \/ SaveResults2024OCR
    \/ SaveResults2024Manual
    \/ SaveResults2021Manual

SpecScripts == InitScripts /\ [][NextScripts]_vars

\* The by_year entries of the master file.
MasterEntries ==
    IF master_file = NoFile THEN {} ELSE { m[2] : m \in master_file.by_year }

\* A stored statistic that holds nothing extracted: a dict without items.
HoldsNothing(value) == value = JDict(NoDict)

\* C10: every entry of by_year in salary_master.json has the keys ENG, GEO,
\* org_count, gender and work_arrangements, and a statistic for which
\* nothing was extracted is null.
C10_EntryShape ==
    \A e \in MasterEntries :
        /\ {"ENG", "GEO", "org_count", "gender", "work_arrangements"}
               \subseteq DOMAIN e
        /\ ~ HoldsNothing(e.org_count)
        /\ ~ HoldsNothing(e.gender)
        /\ ~ HoldsNothing(e.work_arrangements)


-----------------------------------------------------------------------------
(* download_pdfs.py: main and download_file.                               *)

\* PDF_LINKS, in its order: each PDF by the year found in its file name,
\* each with two candidate URLs (the original, then the archive snapshot).
PDF_LINKS == <<2023, 2022, 2021, 2020>>
NumCandidates == 2

\* The PDFs of PDF_LINKS the runs go through (the first MaxPdfs of them),
\* and the number of runs of main.
MaxPdfs == 2
MaxRuns == 2
PdfYears == { PDF_LINKS[i] : i \in 1 .. MaxPdfs }

\* What download_file(url, local_path) can do: "ok" writes the whole body
\* and returns True; "refused" raises in requests.get or raise_for_status,
\* before the file is opened; "broken" raises while the body is streamed,
\* after open(local_path, 'wb') has created or truncated the file.  Both
\* failures are caught and return False.
DownloadOutcomes == {"ok", "refused", "broken"}

\* The file at local_path after download_file with the given outcome.
FileAfter(file, outcome) ==
    CASE outcome = "ok" -> "complete"
      [] outcome = "broken" -> "partial"
      [] OTHER -> file

\* Whether download_file opened local_path for writing.
OpensFile(outcome) == outcome \in {"ok", "broken"}

\* The loop over the candidates goes on after a success too (a faulty variant).
StopsAfterNever(outcome) == FALSE

\* if download_file(url, local_path): ... break
StopsAfter(outcome) == outcome = "ok"

RECURSIVE Attempts(_, _)
\* The loop over url_candidates from candidate cand on: the possible
\* sequences of <<candidate, outcome>> requests.
Attempts(cand, last) ==
    IF cand > last THEN {<<>>}
    ELSE UNION { IF StopsAfter(o) THEN { << <<cand, o>> >> }
                 ELSE { << <<cand, o>> >> \o rest : rest \in Attempts(cand + 1, last) }
                 : o \in DownloadOutcomes }

RECURSIVE FileAfterAll(_, _)
\* The file after a sequence of attempts.
FileAfterAll(file, attempts) ==
    IF attempts = <<>> THEN file
    ELSE FileAfterAll(FileAfter(file, attempts[1][2]), Tail(attempts))

\* os.path.exists(local_path) never holds (a faulty variant).
PathExistsNever(file) == FALSE

\* os.path.exists(local_path)
PathExists(file) == file # "absent"

\* The files a run of main can find: none, or one placed there before.
InitialFiles == {"absent", "prior"}

InitDownload ==
    /\ pc = "download"
    /\ docs \in [PdfYears -> InitialFiles]
    /\ docs_at_start = docs
    /\ results = <<>>
    /\ prev_results = <<>>
    /\ requested = <<>>
    /\ opened = {}
    /\ checksummed = {}
    /\ pdf_idx = 1
    /\ runs = 1
    /\ historical = Unused
    /\ forecast_data = Unused
    /\ master_data = Unused
    /\ years_available = Unused
    /\ salary_by_level = Unused
    /\ forecasts = Unused
    /\ forecasts_file = Unused
    /\ ScriptsIdle
    /\ ExtractIdle
    /\ AuxIdle

\* main, one PDF of the loop whose file exists: 'already-exists'.
SkipExisting ==
    /\ pc = "download"
    /\ pdf_idx <= MaxPdfs
    /\ PathExists(docs[PDF_LINKS[pdf_idx]])
    /\ results' = Append(results, <<PDF_LINKS[pdf_idx], "already-exists">>)
    /\ pdf_idx' = pdf_idx + 1
    /\ UNCHANGED <<docs, docs_at_start, prev_results, requested, opened,
                   checksummed, runs>>
    /\ UNCHANGED <<forecasterVars, scriptVars, extractVars, auxVars, otherVars>>

\* main, one PDF of the loop whose file does not exist: the candidates are
\* tried; a success is checksummed and recorded, otherwise 'failed'.
DownloadPdf ==
    /\ pc = "download"
    /\ pdf_idx <= MaxPdfs
    /\ ~ PathExists(docs[PDF_LINKS[pdf_idx]])
    /\ \E attempts \in Attempts(1, NumCandidates) :
          LET year == PDF_LINKS[pdf_idx]
              success == \E i \in DOMAIN attempts : attempts[i][2] = "ok"
          IN  /\ requested' =
                     requested \o [i \in DOMAIN attempts |->
                                      <<year, attempts[i][1], attempts[i][2]>>]
              /\ docs' = [docs EXCEPT ![year] = FileAfterAll(docs[year], attempts)]
              /\ opened' = opened \cup
                     { y \in {year} :
                         \E i \in DOMAIN attempts : OpensFile(attempts[i][2]) }
              /\ checksummed' = IF success THEN checksummed \cup {year}
                                ELSE checksummed
              /\ results' = Append(results,
                     <<year, IF success THEN "checksum" ELSE "failed">>)
    /\ pdf_idx' = pdf_idx + 1
    /\ UNCHANGED <<docs_at_start, prev_results, runs>>
    /\ UNCHANGED <<forecasterVars, scriptVars, extractVars, auxVars, otherVars>>

\* main returns; the script is run again by hand.
RunAgain ==
    /\ pc = "download"
    /\ pdf_idx > MaxPdfs
    /\ runs < MaxRuns
    /\ runs' = runs + 1
    /\ prev_results' = results
    /\ results' = <<>>
    /\ requested' = <<>>
    /\ opened' = {}
    /\ docs_at_start' = docs
    /\ pdf_idx' = 1
    /\ UNCHANGED <<docs, checksummed>>
    /\ UNCHANGED <<forecasterVars, scriptVars, extractVars, auxVars, otherVars>>

NextDownload == SkipExisting \/ DownloadPdf \/ RunAgain

SpecDownload == InitDownload /\ [][NextDownload]_vars


\* C11: within a run, the candidates of a PDF are requested in their listed
\* order: the archive snapshot (candidate 2) is requested only directly after
\* a failed request for the original (candidate 1) of the same PDF, each PDF
\* starts with its original, and no request for a PDF follows a successful
\* one for it.
C11_CandidatesInOrder ==
    pc = "download" =>
        \A i \in DOMAIN requested :
            LET year == requested[i][1]
                cand == requested[i][2]
            IN  /\ cand \in 1 .. NumCandidates
                /\ cand = 1 =>
                       \A j \in 1 .. i - 1 : requested[j][1] # year
                /\ cand > 1 =>
                       /\ i > 1
                       /\ requested[i - 1][1] = year
                       /\ requested[i - 1][2] = cand - 1
                       /\ requested[i - 1][3] # "ok"
                /\ requested[i][3] = "ok" =>
                       \A j \in i + 1 .. Len(requested) : requested[j][1] # year

\* One PDF was fetched from its original and another from its archive
\* snapshot after the original failed.
C11_Witness ==
    /\ pc = "download"
    /\ \E i \in DOMAIN requested :
          requested[i][2] = 1 /\ requested[i][3] = "ok"
    /\ \E i \in DOMAIN requested :
          requested[i][2] = 2 /\ requested[i][3] = "ok"

\* C12: a file that was at its destination when main started is the same
\* file at every point of the run, and was not opened for writing.
C12_ExistingUntouched ==
    pc = "download" =>
        \A y \in PdfYears :
            docs_at_start[y] # "absent" =>
                docs[y] = docs_at_start[y] /\ y \notin opened

\* A run has finished in which one PDF was there before and another was
\* downloaded.
C12_Witness ==
    /\ pc = "download"
    /\ pdf_idx > MaxPdfs
    /\ \E y \in PdfYears : docs_at_start[y] = "prior" /\ docs[y] = "prior"
    /\ opened # {}

\* C13: a file written by the download is at its destination only if its
\* checksum was taken.
C13_PresentOnlyIfChecksummed ==
    pc = "download" =>
        \A y \in PdfYears :
            docs[y] \in {"partial", "complete"} => y \in checksummed

\* C14: a PDF whose every candidate failed in one run is not reported as
\* 'already-exists' by the next run.
C14_FailedIsRetried ==
    pc = "download" =>
        \A i \in DOMAIN results :
            results[i][2] = "already-exists" =>
                \A j \in DOMAIN prev_results :
                    prev_results[j][1] = results[i][1] =>
                        prev_results[j][2] # "failed"


-----------------------------------------------------------------------------
(* Extraction of one document: SalaryTableParser.parse_year and            *)
(* _process_tables, OCRExtractor2021 and OCRExtractor2024                  *)
(* (_parse_salary_data and _extract_career_levels).                        *)

Extractors == {"SalaryTableParser", "OCRExtractor2021", "OCRExtractor2024"}

\* A document is a sequence of pages, each page one line of text:
\*   OrgCountLine(n)        "n organizations"
\*   OrgNumberLine(n)       "Number of organizations: n"
\*   GenderLine(e, g)       "e% Engineers g% Geoscientists"
\*   SalaryLine(h, l, s)    "h l $s", h being Engineering or Geoscience; for
\*                          pdfplumber the table [[h, "Base Salary"], [l, "$s"]]
OrgCountLine(n) == [kind |-> "count", heading |-> "", level |-> "", n |-> n, m |-> 0]
OrgNumberLine(n) == [kind |-> "number", heading |-> "", level |-> "", n |-> n, m |-> 0]
GenderLine(e, g) == [kind |-> "gender", heading |-> "", level |-> "", n |-> e, m |-> g]
SalaryLine(h, l, s) == [kind |-> "salary", heading |-> h, level |-> l, n |-> s, m |-> 0]

\* The sanity ranges of the three extractors.
ParserMinSalary == 20000
ParserMaxSalary == 300000
Ocr2021MinSalary == 20000
Ocr2021MaxSalary == 500000
Ocr2024MinSalary == 30000
Ocr2024MaxSalary == 400000

\* Every number is accepted (a faulty variant).
InRangeAlways(ex, salary) == TRUE

\* if 20000 <= salary <= 300000 (500000 in the 2021 extractor), and
\* if 30000 <= salary <= 400000 in the 2024 extractor.
InRange(ex, salary) ==
    CASE ex = "SalaryTableParser" ->
             ParserMinSalary <= salary /\ salary <= ParserMaxSalary
      [] ex = "OCRExtractor2021" ->
             Ocr2021MinSalary <= salary /\ salary <= Ocr2021MaxSalary
      [] ex = "OCRExtractor2024" ->
             Ocr2024MinSalary <= salary /\ salary <= Ocr2024MaxSalary

\* The documents extracted: up to MaxPages pages.
MaxPages == 3
Amounts == {19999, 29999, 68890, 300001, 400001, 500001}
Lines ==
    { OrgCountLine(169), OrgNumberLine(150), OrgNumberLine(184),
      GenderLine(92, 8), GenderLine(90, 10),
      SalaryLine("Engineering", "M1", 120000),
      SalaryLine("Geoscience", "P1", 64000),
      SalaryLine("Geoscience", "P1", 500001) }
    \cup { SalaryLine("Engineering", "P1", s) : s \in Amounts }
Documents == UNION { [1 .. n -> Lines] : n \in 1 .. MaxPages }

\* The fields before anything is recorded: org_count = None,
\* gender_split = {}, and no level of either profession.
NoData == [org_count |-> Null, gender |-> JDict(NoDict),
           ENG |-> NoDict, GEO |-> NoDict]

\* The pages of the document, in order, whose line is of one of the kinds.
PagesOfKind(doc, kinds) ==
    LET OfKind(i) == doc[i].kind \in kinds
    IN  SelectSeq([i \in 1 .. Len(doc) |-> i], OfKind)

\* The pages of the document, in order, with a salary of the level.
PagesOfLevel(doc, level) ==
    LET OfLevel(i) == doc[i].kind = "salary" /\ doc[i].level = level
    IN  SelectSeq([i \in 1 .. Len(doc) |-> i], OfLevel)

\* The first element of a sequence as a sequence, or none.
FirstOf(seq) == IF seq = <<>> THEN <<>> ELSE <<seq[1]>>

\* re.search over the whole OCR text: the first pattern, "(\d+)\s+
\* (?:organizations|...)", is tried before "Number of organizations\s*:?
\* \s*(\d+)", and the first pattern that matches ends the loop.
OcrOrgMatch(doc) ==
    IF PagesOfKind(doc, {"count"}) # <<>>
    THEN FirstOf(PagesOfKind(doc, {"count"}))
    ELSE FirstOf(PagesOfKind(doc, {"number"}))

\* re.search of the gender patterns over the whole OCR text.
OcrGenderMatch(doc) ==
    FirstOf(PagesOfKind(doc, {"gender"}))

RECURSIVE UpToFirstInRange(_, _, _)
\* The matches of one level's pattern that the loop of the 2021 extractor
\* comes to: it breaks at the first one within the range.
UpToFirstInRange(ex, doc, pages) ==
    IF pages = <<>> THEN <<>>
    ELSE IF InRange(ex, doc[pages[1]].n) THEN <<pages[1]>>
    ELSE <<pages[1]>> \o UpToFirstInRange(ex, doc, Tail(pages))

\* for level_type in ['P', 'M']: for level_num in range(1, 7)
LevelOrder == <<"P1", "P2", "P3", "P4", "P5", "P6",
                "M1", "M2", "M3", "M4", "M5", "M6">>

RECURSIVE Ocr2021LevelMatches(_, _)
\* OCRExtractor2021._extract_career_levels: level after level, the matches
\* of the level's pattern in the whole text.
Ocr2021LevelMatches(doc, k) ==
    IF k > Len(LevelOrder) THEN <<>>
    ELSE UpToFirstInRange("OCRExtractor2021", doc,
                          PagesOfLevel(doc, LevelOrder[k]))
             \o Ocr2021LevelMatches(doc, k + 1)

\* The profession the 2021 extractor files every level under:
\* 'Engineering' in text, elif 'Geoscience' in text.
Ocr2021Profession(doc) ==
    IF \E i \in DOMAIN doc : doc[i].heading = "Engineering" THEN "ENG"
    ELSE IF \E i \in DOMAIN doc : doc[i].heading = "Geoscience" THEN "GEO"
    ELSE "none"

\* The profession of one page (2024 extractor) or of one table (parser).
PageProfession(line) ==
    IF line.heading = "Engineering" THEN "ENG"
    ELSE IF line.heading = "Geoscience" THEN "GEO"
    ELSE "none"

\* The matches an extraction comes to, in its order, as page numbers.
\* The parser goes page by page (its organization pattern needs the number
\* after the words); the OCR extractors search the whole text field by
\* field, and the 2024 extractor takes the levels page by page.
Matches(ex, doc) ==
    CASE ex = "SalaryTableParser" ->
             PagesOfKind(doc, {"number", "gender", "salary"})
      [] ex = "OCRExtractor2021" ->
             OcrOrgMatch(doc) \o OcrGenderMatch(doc)
                 \o (IF Ocr2021Profession(doc) = "none" THEN <<>>
                     ELSE Ocr2021LevelMatches(doc, 1))
      [] ex = "OCRExtractor2024" ->
             OcrOrgMatch(doc) \o OcrGenderMatch(doc)
                 \o PagesOfKind(doc, {"salary"})

\* The number the cell pattern '\$?([\d,]+)' finds in each cell of the row
\* [level, "$amount"]: the digit of the level, then the amount.
CellNumbers(line) ==
    << IF line.level \in {"P1", "M1"} THEN 1 ELSE 0, line.n >>

RECURSIVE FirstCellInRange(_, _)
\* for cell in row: the first number within the range, or 0 if there is none.
FirstCellInRange(ex, cells) ==
    IF cells = <<>> THEN 0
    ELSE IF InRange(ex, cells[1]) THEN cells[1]
    ELSE FirstCellInRange(ex, Tail(cells))

\* The guard is passed whatever is recorded (a faulty variant).
NotRecordedAlways(d, field) == TRUE

\* if org_count is None / if not gender_split
NotRecorded(d, field) ==
    IF field = "org_count" THEN d.org_count = Null
    ELSE d.gender = JDict(NoDict)

\* A level found again replaces its salary (a faulty variant).
StoreLevelLast(levels, level, salary) == SetItem(levels, level, salary)

\* if level not in target_dict: target_dict[level] = salary
StoreLevel(levels, level, salary) ==
    IF level \notin DOMAIN levels THEN SetItem(levels, level, salary)
    ELSE levels

\* The 2024 extractor: a level found again gets (existing + salary) // 2.
StoreOrAverage(levels, level, salary) ==
    IF level \notin DOMAIN levels THEN SetItem(levels, level, salary)
    ELSE SetItem(levels, level, (levels[level] + salary) \div 2)

\* What one match does to the fields.
Handle(ex, d, doc, i) ==
    LET line == doc[i]
        parser == ex = "SalaryTableParser"
    IN  CASE line.kind \in {"count", "number"} ->
                 IF parser => NotRecorded(d, "org_count")
                 THEN [d EXCEPT !.org_count = JInt(line.n)] ELSE d
          [] line.kind = "gender" ->
                 IF parser => NotRecorded(d, "gender")
                 THEN [d EXCEPT !.gender = GenderSplit(line.n, line.m)] ELSE d
          [] line.kind = "salary" ->
                 LET prof == IF ex = "OCRExtractor2021"
                             THEN Ocr2021Profession(doc)
                             ELSE PageProfession(line)
                     salary == IF parser
                               THEN FirstCellInRange(ex, CellNumbers(line))
                               ELSE line.n
                 IN  IF prof = "none" \/ (parser /\ salary = 0)
                        \/ ~ InRange(ex, salary)
                     THEN d
                     ELSE IF ex = "OCRExtractor2024"
                     THEN [d EXCEPT ![prof] = StoreOrAverage(d[prof], line.level, salary)]
                     ELSE [d EXCEPT ![prof] = StoreLevel(d[prof], line.level, salary)]

RECURSIVE HandleAll(_, _, _, _)
\* The fields after the matches from the k-th on.
HandleAll(ex, d, doc, k) ==
    IF k > Len(Matches(ex, doc)) THEN d
    ELSE HandleAll(ex, Handle(ex, d, doc, Matches(ex, doc)[k]), doc, k + 1)

\* The fields one extraction of a document ends with.
Extract(ex, doc) == HandleAll(ex, NoData, doc, 1)

InitExtract ==
    /\ pc = "extract"
    /\ extractor \in Extractors
    /\ document \in Documents
    /\ position = 0
    /\ extracted = NoData
    /\ pdf_files = Unused
    /\ parse_pos = 0
    /\ errors = Unused
    /\ script_outcome = Unused
    /\ historical = Unused
    /\ forecast_data = Unused
    /\ master_data = Unused
    /\ years_available = Unused
    /\ salary_by_level = Unused
    /\ forecasts = Unused
    /\ forecasts_file = Unused
    /\ ScriptsIdle
    /\ DownloadIdle
    /\ AuxIdle

\* The extraction handles its next match.
HandleMatch ==
    /\ pc = "extract"
    /\ position < Len(Matches(extractor, document))
    /\ position' = position + 1
    /\ extracted' = Handle(extractor, extracted, document,
                           Matches(extractor, document)[position + 1])
    /\ UNCHANGED <<extractor, document, pdf_files, parse_pos, errors,
                   script_outcome>>
    /\ UNCHANGED <<forecasterVars, scriptVars, downloadVars, auxVars, otherVars>>

\* The extraction has gone through the document.
FinishExtract ==
    /\ pc = "extract"
    /\ position = Len(Matches(extractor, document))
    /\ pc' = "extracted"
    /\ UNCHANGED <<historical, forecast_data, master_data, years_available,
                   salary_by_level, forecasts, forecasts_file>>
    /\ UNCHANGED <<scriptVars, downloadVars, extractVars, auxVars, otherVars>>

NextExtract == HandleMatch \/ FinishExtract

SpecExtract == InitExtract /\ [][NextExtract]_vars


\* The sanity range of the extraction that is running.
SanityMin ==
    CASE extractor = "SalaryTableParser" -> ParserMinSalary
      [] extractor = "OCRExtractor2021" -> Ocr2021MinSalary
      [] extractor = "OCRExtractor2024" -> Ocr2024MinSalary
SanityMax ==
    CASE extractor = "SalaryTableParser" -> ParserMaxSalary
      [] extractor = "OCRExtractor2021" -> Ocr2021MaxSalary
      [] extractor = "OCRExtractor2024" -> Ocr2024MaxSalary
SanityRange == SanityMin .. SanityMax

Professions == {"ENG", "GEO"}

\* C17: every level salary an extractor has recorded lies within that
\* extractor's sanity range: 20000..300000 for the table parser,
\* 20000..500000 for the 2021 OCR extractor, 30000..400000 for the 2024 OCR
\* extractor, the means it takes of several matches included.
C17_SalariesInRange ==
    pc \in {"extract", "extracted"} =>
        \A prof \in Professions :
            \A l \in DOMAIN extracted[prof] :
                extracted[prof][l] \in SanityRange

\* The 2024 extractor has finished a document that holds a salary outside
\* its range, and has recorded a salary that is on no page: the mean of two.
C17_Witness ==
    /\ pc = "extracted"
    /\ extractor = "OCRExtractor2024"
    /\ \E i \in DOMAIN document :
          document[i].kind = "salary" /\ document[i].n \notin SanityRange
    /\ \E l \in DOMAIN extracted.ENG :
          \A i \in DOMAIN document : document[i].n # extracted.ENG[l]

\* The fields recorded in d are the same in e.
OrgAndGenderKept(d, e) ==
    /\ d.org_count # Null => e.org_count = d.org_count
    /\ d.gender # JDict(NoDict) => e.gender = d.gender
LevelKept(d, e, prof, l) ==
    l \in DOMAIN e[prof] /\ e[prof][l] = d[prof][l]

\* C18 as stated: in every extraction, whatever the extractor, a step leaves
\* every recorded field (organization count, gender split, each level's
\* salary of each profession) as it was.
C18_FirstMatchWins ==
    [][pc = "extract" =>
          /\ OrgAndGenderKept(extracted, extracted')
          /\ \A prof \in Professions :
                \A l \in DOMAIN extracted[prof] :
                    LevelKept(extracted, extracted', prof, l)]_vars

\* The match the step now handles.
CurrentLine == document[Matches(extractor, document)[position + 1]]

\* C18, amended: a step leaves every recorded field as it was, except that
\* the 2024 OCR extractor replaces a recorded level salary, at a further
\* match of that level within its range, by the floor of the mean of the
\* recorded salary and the match.
C18_FirstMatchWinsOrMean ==
    [][pc = "extract" =>
          /\ OrgAndGenderKept(extracted, extracted')
          /\ \A prof \in Professions :
                \A l \in DOMAIN extracted[prof] :
                    \/ LevelKept(extracted, extracted', prof, l)
                    \/ /\ extractor = "OCRExtractor2024"
                       /\ CurrentLine.kind = "salary"
                       /\ CurrentLine.level = l
                       /\ CurrentLine.n \in SanityRange
                       /\ l \in DOMAIN extracted'[prof]
                       /\ extracted'[prof][l] =
                              (extracted[prof][l] + CurrentLine.n) \div 2]_vars

\* The table parser has handled two in-range salaries of one level and
\* holds the first.
C18_Witness ==
    /\ pc = "extract"
    /\ extractor = "SalaryTableParser"
    /\ position = 2
    /\ document[1] = SalaryLine("Engineering", "P1", 68890)
    /\ document[2] = SalaryLine("Engineering", "P1", 29999)
    /\ extracted.ENG["P1"] = 68890

\* C19: a finished extraction by the table parser or by the 2021 OCR
\* extractor of a text containing "169 organizations" has the organization
\* count 169, and of a text whose gender line is "92% Engineers 8%
\* Geoscientists" has the gender split 92 / 8.
C19_SampleTextExtracted ==
    (pc = "extracted" /\ extractor \in {"SalaryTableParser", "OCRExtractor2021"}) =>
        /\ (\E i \in DOMAIN document : document[i] = OrgCountLine(169))
               => extracted.org_count = JInt(169)
        /\ (/\ \E i \in DOMAIN document : document[i] = GenderLine(92, 8)
            /\ \A i \in DOMAIN document :
                   document[i].kind = "gender" => document[i] = GenderLine(92, 8))
               => extracted.gender = GenderSplit(92, 8)


-----------------------------------------------------------------------------
(* parse_salary_tables.py: SalaryTableParser.parse_all_years.              *)

\* The years whose PDF docs/<year>/apega_salary_survey_<year>.pdf the glob
\* can find, and what their pages read.
ParseYears == {LastSurveyYear - 2, LastSurveyYear - 1, LastSurveyYear}
ParseDocuments ==
    { <<SalaryLine("Engineering", "P1", 19999)>>,
      <<OrgNumberLine(150)>>,
      <<GenderLine(92, 8), SalaryLine("Engineering", "P1", 68890)>>,
      <<OrgNumberLine(184), GenderLine(90, 10)>> }

\* parse_year raised after it had stored the year's tables (a faulty variant).
OnRaiseStored(sd, year) == SetItem(sd, year, [ENG |-> NoDict, GEO |-> NoDict])

\* parse_year raised: every store of parse_year comes after the last call
\* that reads the PDF, so nothing of the year is stored.
OnRaise(sd, year) == sd

\* remote_work_pct: looked for from 2023 on, matched or not.
RemoteMatches(year) ==
    IF year >= 2023 THEN {Null, RemotePct(30)} ELSE {Null}

InitParseAll ==
    /\ \E ys \in SUBSET ParseYears : pdf_files = SortedSeq(ys)
    /\ pc = IF pdf_files = <<>> THEN "parsed" ELSE "parse"
    /\ parse_pos = 1
    /\ errors = {}
    /\ salary_data = NoDict
    /\ org_stats = NoDict
    /\ gender_data = NoDict
    /\ work_arrangements = NoDict
    /\ master_dataset = Unused
    /\ master_file = NoFile
    /\ year_files = Unused
    /\ extractor = Unused
    /\ document = Unused
    /\ position = 0
    /\ extracted = Unused
    /\ script_outcome = Unused
    /\ historical = Unused
    /\ forecast_data = Unused
    /\ master_data = Unused
    /\ years_available = Unused
    /\ salary_by_level = Unused
    /\ forecasts = Unused
    /\ forecasts_file = Unused
    /\ DownloadIdle
    /\ AuxIdle

\* One turn of the loop of parse_all_years: parse_year raises and the error
\* is printed, or it returns and has stored what it found.
ParseYear ==
    /\ pc = "parse"
    /\ LET year == pdf_files[parse_pos]
       IN  \/ /\ errors' = errors \cup {year}
              /\ salary_data' = OnRaise(salary_data, year)
              /\ UNCHANGED <<org_stats, gender_data, work_arrangements>>
           \/ \E doc \in ParseDocuments, remote \in RemoteMatches(year) :
                 LET found == Extract("SalaryTableParser", doc)
                 IN  /\ salary_data' =
                            SetItem(salary_data, year,
                                    [ENG |-> found.ENG, GEO |-> found.GEO])
                     /\ org_stats' =
                            IF found.org_count # Null /\ found.org_count.val # 0
                            THEN SetItem(org_stats, year, found.org_count)
                            ELSE org_stats
                     /\ gender_data' =
                            IF found.gender # JDict(NoDict)
                            THEN SetItem(gender_data, year, found.gender)
                            ELSE gender_data
                     /\ work_arrangements' =
                            IF remote # Null
                            THEN SetItem(work_arrangements, year, remote)
                            ELSE work_arrangements
                     /\ UNCHANGED errors
    /\ parse_pos' = parse_pos + 1
    /\ pc' = IF parse_pos' > Len(pdf_files) THEN "parsed" ELSE "parse"
    /\ UNCHANGED <<historical, forecast_data, master_data, years_available,
                   salary_by_level, forecasts, forecasts_file>>
    /\ UNCHANGED <<master_dataset, master_file, year_files>>
    /\ UNCHANGED <<extractor, document, position, extracted, pdf_files,
                   script_outcome>>
    /\ UNCHANGED <<downloadVars, auxVars, otherVars>>

NextParseAll == ParseYear \/ SaveMasterDataset

SpecParseAll == InitParseAll /\ [][NextParseAll]_vars

\* parse_all_years runs on: the loop and the save that follows it.
SpecParseAllFair == SpecParseAll /\ WF_vars(NextParseAll)

\* The years of pdf_files the loop has gone through.
YearsDone == { pdf_files[i] : i \in 1 .. parse_pos - 1 }

\* C15: a year whose parse raised has no entry in salary_data, org_stats,
\* gender_data or work_arrangements; the years after it are parsed all the
\* same (every year gone through either failed or has its salary_data
\* entry); and the run always comes to save_master_dataset, which writes
\* the master file with exactly the years that did not fail.
C15_FailureNotFatal ==
    /\ [](pc \in {"parse", "parsed", "saved"} =>
             /\ \A y \in errors :
                    y \notin DOMAIN salary_data \cup DOMAIN org_stats
                             \cup DOMAIN gender_data \cup DOMAIN work_arrangements
             /\ YearsDone = errors \cup DOMAIN salary_data
             /\ pc # "parse" => parse_pos = Len(pdf_files) + 1
             /\ pc = "saved" =>
                    /\ master_file # NoFile
                    /\ { PyInt(k) : k \in DOMAIN JsonLoad(master_file).by_year }
                           = YearsDone \ errors)
    /\ <>(pc = "saved")

\* The first PDF of three failed, a later one was parsed, and the master
\* file was written.
C15_Witness ==
    /\ pc = "saved"
    /\ Len(pdf_files) = 3
    /\ pdf_files[1] \in errors
    /\ pdf_files[3] \in DOMAIN salary_data
    /\ master_file # NoFile


-----------------------------------------------------------------------------
(* extract_2021_ocr.py and extract_2024_ocr.py: the scripts' __main__.     *)

\* How extract_from_pdf can end: it returns True after the OCR and the
\* parse of its text, or an exception of the conversion or of the OCR is
\* caught and it returns False.
OcrOutcomes == {"extracted", "ocr-error"}

\* save_results is called whatever extract_from_pdf returned (a faulty variant).
SavesAlways(outcome) == TRUE

\* if extractor.extract_from_pdf(pdf_path): ... extractor.save_results()
Saves(outcome) == outcome = "extracted"

\* self.data as __init__ leaves it.
InitialOcrData(year) == OcrData(year, NoDict, FALSE, FALSE, FALSE)

\* self.data when extract_from_pdf has returned: what the patterns matched
\* (the 2021 extractor has no pattern for work arrangements), or, after an
\* exception of the OCR, what __init__ put there.
OcrDataAfter(year, outcome) ==
    IF outcome = "extracted"
    THEN { OcrData(year, eng, org, gender, remote) :
             eng \in OcrTables, org \in BOOLEAN, gender \in BOOLEAN,
             remote \in IF year = 2024 THEN BOOLEAN ELSE {FALSE} }
    ELSE { InitialOcrData(year) }

\* The master file the scripts can find: none, or one written by
\* parse_salary_tables.py.
MasterFilesFound ==
    { NoFile,
      JsonDump(MasterDataset(NoDict, NoDict, NoDict, NoDict)),
      JsonDump(MasterDataset(
          (LastSurveyYear :> [ENG |-> [l \in {"P1"} |-> 68000], GEO |-> NoDict]),
          NoDict, NoDict, NoDict)) }

InitOcrMain ==
    /\ pc = "ocr"
    /\ docs \in [OcrYears -> {"absent", "partial", "complete"}]
    /\ master_file \in MasterFilesFound
    /\ year_files = [y \in OcrYears |-> NoFile]
    /\ script_outcome = <<>>
    /\ salary_data = Unused
    /\ org_stats = Unused
    /\ gender_data = Unused
    /\ work_arrangements = Unused
    /\ master_dataset = Unused
    /\ extractor = Unused
    /\ document = Unused
    /\ position = 0
    /\ extracted = Unused
    /\ pdf_files = Unused
    /\ parse_pos = 0
    /\ errors = Unused
    /\ docs_at_start = Unused
    /\ results = Unused
    /\ prev_results = Unused
    /\ requested = Unused
    /\ opened = Unused
    /\ checksummed = Unused
    /\ pdf_idx = 0
    /\ runs = 0
    /\ historical = Unused
    /\ forecast_data = Unused
    /\ master_data = Unused
    /\ years_available = Unused
    /\ salary_by_level = Unused
    /\ forecasts = Unused
    /\ forecasts_file = Unused
    /\ AuxIdle

\* One run of the OCR script of a year: exit(1) when the PDF is not there;
\* otherwise extract_from_pdf, and save_results if it returned True.
OcrMain(year) ==
    /\ pc = "ocr"
    /\ IF ~ PathExists(docs[year])
       THEN /\ script_outcome' = <<year, "missing">>
            /\ UNCHANGED <<year_files, master_file>>
       ELSE \E outcome \in OcrOutcomes :
               /\ script_outcome' = <<year, outcome>>
               /\ IF Saves(outcome)
                  THEN \E d \in OcrDataAfter(year, outcome) :
                          /\ year_files' = [year_files EXCEPT ![year] = d]
                          /\ master_file' = UpdateMaster(master_file, year, OcrEntry(d))
                  ELSE UNCHANGED <<year_files, master_file>>
    /\ UNCHANGED forecasterVars
    /\ UNCHANGED <<salary_data, org_stats, gender_data, work_arrangements,
                   master_dataset>>
    /\ UNCHANGED <<downloadVars, auxVars, otherVars>>
    /\ UNCHANGED <<extractor, document, position, extracted, pdf_files,
                   parse_pos, errors>>

Main2021OCR == OcrMain(2021)
Main2024OCR == OcrMain(2024)

NextOcrMain == Main2021OCR \/ Main2024OCR

SpecOcrMain == InitOcrMain /\ [][NextOcrMain]_vars

\* C16: a run of an OCR script that changes salary_data_<year>.json or
\* salary_master.json is one whose PDF was there and whose extract_from_pdf
\* returned True; a run that found no PDF, or whose OCR raised, leaves both
\* files as they were (not there, if they were not there).
C16_SavedOnlyWhenExtracted ==
    [][pc = "ocr" =>
          /\ (year_files' # year_files \/ master_file' # master_file) =>
                 /\ script_outcome'[2] = "extracted"
                 /\ docs[script_outcome'[1]] # "absent"
          /\ script_outcome'[2] \in {"missing", "ocr-error"} =>
                 /\ year_files' = year_files
                 /\ master_file' = master_file
          /\ docs[script_outcome'[1]] = "absent" => script_outcome'[2] = "missing"]_vars

\* The OCR of the 2024 script raised, with a master file there and after
\* the 2021 script had saved: the 2024 file was not created.
C16_Witness ==
    /\ pc = "ocr"
    /\ script_outcome = <<2024, "ocr-error">>
    /\ master_file # NoFile
    /\ year_files[2021] # NoFile
    /\ year_files[2024] = NoFile


-----------------------------------------------------------------------------
(* forecast_salaries.py run on the master file the extraction scripts      *)
(* wrote: SalaryForecaster.__init__ (load_master_data), forecast_all,      *)
(* save_forecasts.                                                         *)

\* What parse_all_years stored for the years whose PDF it parsed, and the
\* ENG table the 2021 OCR script extracted, if it was run.
MasterYears == {FirstSurveyYear, FirstSurveyYear + 1, LastSurveyYear}
MasterTables ==
    { [ENG |-> NoDict, GEO |-> NoDict],
      [ENG |-> [l \in {"P1"} |-> 68000], GEO |-> NoDict],
      [ENG |-> [l \in {"P1", "M1"} |-> IF l = "P1" THEN 70000 ELSE 92000],
       GEO |-> NoDict] }
MasterFilesWritten ==
    LET parsed == { JsonDump(MasterDataset(sd, NoDict, NoDict, NoDict)) :
                      sd \in UNION { [ys -> MasterTables] :
                                        ys \in SUBSET MasterYears } }
    IN  parsed \cup
        { UpdateMaster(file, 2021, OcrEntry(OcrData(2021, eng, FALSE, FALSE, FALSE))) :
            file \in parsed, eng \in OcrTables }

\* SalaryForecaster(): __init__ has loaded the master file.
InitForecastMaster ==
    /\ pc = "forecast_all"
    /\ master_file \in MasterFilesWritten
    /\ master_data = JsonLoad(master_file)
    /\ years_available = YearsAvailable(master_data)
    /\ historical = Unused
    /\ forecast_data = Unused
    /\ salary_by_level = Unused
    /\ forecasts = Unused
    /\ forecasts_file = Unused
    /\ salary_data = Unused
    /\ org_stats = Unused
    /\ gender_data = Unused
    /\ work_arrangements = Unused
    /\ master_dataset = Unused
    /\ year_files = Unused
    /\ DownloadIdle
    /\ ExtractIdle
    /\ AuxIdle

SpecForecastMaster == InitForecastMaster /\ [][NextForecast]_vars

\* C20: when the forecaster has run, no level was fitted on a history that
\* has the year 2021, and the base_years written to the metadata of the
\* forecast file do not list 2021.
C20_Excludes2021 ==
    (pc = "plots" /\ master_file # Unused) =>
        /\ \A l \in DOMAIN salary_by_level :
               2021 \notin DOMAIN ExtractHistorical(master_data, "ENG", l)
        /\ \A i \in DOMAIN forecasts_file.metadata.base_years :
               forecasts_file.metadata.base_years[i] # 2021

-----------------------------------------------------------------------------
(* verify_data.py: the four checks and the closing message.                *)

\* A file whose text is not JSON: the empty file open(path, 'w') leaves
\* until json.dump has written.  json.load raises on it.
EmptyFile == [kind |-> "empty"]

\* A file holding the text of one json.dump over the rest of a longer one:
\* two open(path, 'w') handles wrote from offset 0.  json.load raises on it.
GarbledFile == [kind |-> "garbled"]

\* with open(path) as f: json.load(f) returns (the file exists and parses).
Loads(file) == file \notin {NoFile, EmptyFile, GarbledFile}

\* sorted(master['by_year'].keys()) raises nothing.
CheckMaster(file) == Loads(file) /\ "by_year" \in DOMAIN file

\* len(data['compensation']['ENG']) and len(data['compensation']['GEO'])
\* raise nothing.
CheckYearData(file) ==
    /\ Loads(file)
    /\ "compensation" \in DOMAIN file
    /\ {"ENG", "GEO"} \subseteq DOMAIN file.compensation

\* sorted(forecasts['ENG']['P1'].keys()) raises nothing.
CheckForecasts(file) ==
    /\ Loads(file)
    /\ "ENG" \in DOMAIN file
    /\ "P1" \in DOMAIN file.ENG

\* The four files in the order of the checks, and the check of each.
VerifiedFiles ==
    <<"salary_master.json", "salary_data_2021.json", "salary_data_2024.json",
      "salary_forecasts_2024_2030.json">>
FileChecked(name) ==
    CASE name = "salary_master.json" -> CheckMaster(master_file)
      [] name = "salary_data_2021.json" -> CheckYearData(year_files[2021])
      [] name = "salary_data_2024.json" -> CheckYearData(year_files[2024])
      [] name = "salary_forecasts_2024_2030.json" -> CheckForecasts(forecasts_file)

\* The line of the try block ('<name>: Valid' after a tick), the line of
\* its except clause ('<name>: {e}' after a cross), and the closing print.
ValidLine(name) == [mark |-> "ok", about |-> name, text |-> "Valid"]
ErrorLine(name) == [mark |-> "failed", about |-> name, text |-> "error"]
SummaryLine ==
    [mark |-> "ok", about |-> "All data files",
     text |-> "verified and operational"]

\* The data directory verify_data.py may find: each file absent, empty, or
\* as one of the scripts wrote it (a forecast file with and without P1).
VerifyMasterFiles ==
    {NoFile, EmptyFile,
     JsonDump(MasterDataset([y \in {2022} |-> [ENG |-> [l \in {"P1"} |-> 68000],
                                               GEO |-> NoDict]],
                            NoDict, NoDict, NoDict))}
VerifyYearFiles(year) ==
    {NoFile, EmptyFile, OcrData(year, NoDict, FALSE, FALSE, FALSE),
     IF year = 2024 THEN ManualData2024
     ELSE OcrData(year, [l \in {"P1"} |-> 68890], TRUE, TRUE, FALSE)}
VerifyForecastFiles ==
    {NoFile, EmptyFile}
    \cup { [metadata |-> [forecast_years |-> SortedSeq(ForecastYears),
                          base_years |-> <<2022, 2023>>],
            ENG |-> [l \in ls |-> [y \in ForecastYears |-> 70000]]] :
           ls \in {{}, {"M1"}, {"P1", "M1"}} }

InitVerify ==
    /\ pc = "verify"
    /\ stdout = <<>>
    /\ master_file \in VerifyMasterFiles
    /\ year_files \in [OcrYears -> UNION { VerifyYearFiles(y) : y \in OcrYears }]
    /\ \A y \in OcrYears : year_files[y] \in VerifyYearFiles(y)
    /\ forecasts_file \in VerifyForecastFiles
    /\ salary_data = Unused
    /\ org_stats = Unused
    /\ gender_data = Unused
    /\ work_arrangements = Unused
    /\ master_dataset = Unused
    /\ historical = Unused
    /\ forecast_data = Unused
    /\ master_data = Unused
    /\ years_available = Unused
    /\ salary_by_level = Unused
    /\ forecasts = Unused
    /\ procs = Unused
    /\ events = Unused
    /\ forecast_by_level = Unused
    /\ legacy_files = Unused
    /\ DownloadIdle
    /\ ExtractIdle

\* One try block: the file is loaded and its keys are read; the block
\* prints the Valid line, or its except clause prints the error.
VerifyFile ==
    /\ pc = "verify"
    /\ Len(stdout) < Len(VerifiedFiles)
    /\ LET name == VerifiedFiles[Len(stdout) + 1]
       IN  stdout' = Append(stdout, IF FileChecked(name) THEN ValidLine(name)
                                    ELSE ErrorLine(name))
    /\ UNCHANGED <<pc, procs, events, otherVars>>
    /\ UNCHANGED <<historical, forecast_data, master_data, years_available,
                   salary_by_level, forecasts, forecasts_file>>
    /\ UNCHANGED <<scriptVars, downloadVars, extractVars>>

\* The last three lines of the script: the closing message.
VerifySummary ==
    /\ pc = "verify"
    /\ Len(stdout) = Len(VerifiedFiles)
    /\ stdout' = Append(stdout, SummaryLine)
    /\ pc' = "verified"
    /\ UNCHANGED <<procs, events, otherVars>>
    /\ UNCHANGED <<historical, forecast_data, master_data, years_available,
                   salary_by_level, forecasts, forecasts_file>>
    /\ UNCHANGED <<scriptVars, downloadVars, extractVars>>

NextVerify == VerifyFile \/ VerifySummary

SpecVerify == InitVerify /\ [][NextVerify]_vars

\* C21: the script prints 'All data files verified and operational' only
\* when each of the four files loaded and passed its check.
C21_SuccessOnlyWhenAllPassed ==
    (\E i \in 1 .. Len(stdout) : stdout[i] = SummaryLine) =>
        \A i \in 1 .. Len(VerifiedFiles) : FileChecked(VerifiedFiles[i])

-----------------------------------------------------------------------------
(* Two save_results running side by side: extract_2021_ocr.py and          *)
(* extract_2024_manual.py on the same salary_master.json.                  *)

\* The two runs, by the year each one stores.
RaceYears == OcrYears

\* WithEntry that leaves the loaded master as it is (a faulty variant).
WithEntryDropped(master, year, entry) == master

\* master['by_year'][<year>] = {...} on the dict json.load returned.
WithEntry(master, year, entry) ==
    [master EXCEPT !.by_year = SetItem(master.by_year, StrKey(year), entry)]

\* The by_year entry a run builds from the data it holds (the data it has
\* dumped to its own salary_data_<year>.json).
RaceEntry(year) ==
    IF year = 2021 THEN OcrEntry(year_files[2021])
    ELSE ManualEntry(year_files[2024], "Manually extracted from image-based PDF")

\* The master file the runs find: none, or the file of save_master_dataset.
RaceMasterFiles ==
    {NoFile,
     JsonDump(MasterDataset([y \in {2022} |-> [ENG |-> [l \in {"P1"} |-> 68000],
                                               GEO |-> NoDict]],
                            NoDict, NoDict, NoDict))}

InitRace ==
    /\ pc = "race"
    /\ procs = [y \in RaceYears |-> [pc |-> "save_year", master |-> Unused]]
    /\ events = <<>>
    /\ master_file \in RaceMasterFiles
    /\ year_files = [y \in OcrYears |-> NoFile]
    /\ stdout = Unused
    /\ forecast_by_level = Unused
    /\ legacy_files = Unused
    /\ salary_data = Unused
    /\ org_stats = Unused
    /\ gender_data = Unused
    /\ work_arrangements = Unused
    /\ master_dataset = Unused
    /\ historical = Unused
    /\ forecast_data = Unused
    /\ master_data = Unused
    /\ years_available = Unused
    /\ salary_by_level = Unused
    /\ forecasts = Unused
    /\ forecasts_file = Unused
    /\ DownloadIdle
    /\ ExtractIdle

\* What a step of a run leaves alone besides procs, events and the files.
RaceFrame ==
    /\ UNCHANGED <<pc, stdout, salary_data, org_stats, gender_data,
                   work_arrangements, master_dataset, otherVars>>
    /\ UNCHANGED <<historical, forecast_data, master_data, years_available,
                   salary_by_level, forecasts, forecasts_file>>
    /\ UNCHANGED <<downloadVars, extractVars>>

\* with open(output_path, 'w') as f: json.dump(data, f): the run's own
\* salary_data_<year>.json, which the other run does not touch.
RaceSaveYear(year) ==
    /\ procs[year].pc = "save_year"
    /\ \E eng \in OcrTables, org \in BOOLEAN :
          year_files' =
              [year_files EXCEPT
                  ![year] = IF year = 2021
                            THEN OcrData(2021, eng, org, org, FALSE)
                            ELSE ManualData2024]
    /\ procs' = [procs EXCEPT ![year].pc = "exists"]
    /\ UNCHANGED <<master_file, events>>
    /\ RaceFrame

\* if master_path.exists(): the run ends here when there is no master file.
RaceExists(year) ==
    /\ procs[year].pc = "exists"
    /\ procs' = [procs EXCEPT
                    ![year].pc = IF master_file = NoFile THEN "done" ELSE "read"]
    /\ UNCHANGED <<master_file, year_files, events>>
    /\ RaceFrame

\* master = json.load(f) and the assignment of the run's entry; json.load
\* raises, and the run ends, when the file holds no JSON text.
RaceRead(year) ==
    /\ procs[year].pc = "read"
    /\ IF master_file \in {EmptyFile, GarbledFile}
       THEN /\ procs' = [procs EXCEPT ![year].pc = "raised"]
            /\ UNCHANGED events
       ELSE /\ procs' = [procs EXCEPT
                            ![year].pc = "open",
                            ![year].master =
                                WithEntry(JsonLoad(master_file), year,
                                          RaceEntry(year))]
            /\ events' = Append(events, <<year, "read">>)
    /\ UNCHANGED <<master_file, year_files>>
    /\ RaceFrame

\* open(master_path, 'w'): the file is truncated.
RaceOpen(year) ==
    /\ procs[year].pc = "open"
    /\ master_file' = EmptyFile
    /\ procs' = [procs EXCEPT ![year].pc = "dump"]
    /\ UNCHANGED <<year_files, events>>
    /\ RaceFrame

\* json.dump(master, f) and the close of the file: the text is written from
\* offset 0.  On a file the other run has written since this run's open,
\* the text replaces the other text or only its beginning.
RaceDump(year) ==
    /\ procs[year].pc = "dump"
    /\ \/ master_file' = JsonDump(procs[year].master)
       \/ /\ master_file # EmptyFile
          /\ master_file' = GarbledFile
    /\ procs' = [procs EXCEPT ![year].pc = "done"]
    /\ events' = Append(events, <<year, "dump">>)
    /\ UNCHANGED year_files
    /\ RaceFrame

NextRace ==
    \E year \in RaceYears :
        \/ RaceSaveYear(year)
        \/ RaceExists(year)
        \/ RaceRead(year)
        \/ RaceOpen(year)
        \/ RaceDump(year)

SpecRace == InitRace /\ [][NextRace]_vars

\* The position of an event in events (0 when it has not happened).
EventAt(year, what) ==
    IF \E i \in 1 .. Len(events) : events[i] = <<year, what>>
    THEN CHOOSE i \in 1 .. Len(events) : events[i] = <<year, what>>
    ELSE 0

\* Both runs have ended after writing the master file, and the file loads.
BothWrote ==
    /\ \A y \in RaceYears : procs[y].pc = "done" /\ EventAt(y, "dump") > 0
    /\ master_file \notin {NoFile, EmptyFile, GarbledFile}

\* The file holds the entry of a run under the key of its year.
HoldsEntry(year) ==
    /\ StrKey(year) \in DOMAIN JsonLoad(master_file).by_year
    /\ JsonLoad(master_file).by_year[StrKey(year)] = RaceEntry(year)

\* C22: two save_results on one salary_master.json race: when both have
\* written, the file holds the entry of the run that wrote last, and the
\* entry of the other run is missing exactly when the last writer had loaded
\* the file before the other run wrote it.
C22_LastWriterWins ==
    BothWrote =>
        \A last \in RaceYears, other \in RaceYears :
            EventAt(last, "dump") > EventAt(other, "dump") =>
                /\ HoldsEntry(last)
                /\ ~ HoldsEntry(other) <=>
                       EventAt(last, "read") < EventAt(other, "dump")

\* Both runs have written the master file, and the entry of the 2021 run is
\* not in it.
C22_Witness ==
    /\ BothWrote
    /\ StrKey(2021) \notin DOMAIN JsonLoad(master_file).by_year
    /\ StrKey(2024) \in DOMAIN JsonLoad(master_file).by_year

-----------------------------------------------------------------------------
(* forecast_all on master data with several levels in both groups.         *)

\* Master data in which three P levels and two M levels each have a salary
\* of 100 in the first survey year and one of InputSalaries in the last.
TrackLevels == {"P1", "P2", "P3", "M1", "M2"}
TrackTables ==
    { h \in LevelTables :
        /\ DOMAIN h = {FirstSurveyYear, LastSurveyYear}
        /\ h[FirstSurveyYear] = 100 }

InitForecastTracks ==
    /\ pc = "forecast_all"
    /\ \E tab \in [TrackLevels -> TrackTables] : master_data = InputMaster(tab)
    /\ years_available = YearsAvailable(master_data)
    /\ historical = Unused
    /\ forecast_data = Unused
    /\ salary_by_level = Unused
    /\ forecasts = Unused
    /\ forecasts_file = Unused
    /\ ScriptsIdle
    /\ DownloadIdle
    /\ ExtractIdle
    /\ AuxIdle

SpecForecastTracks == InitForecastTracks /\ [][NextForecast]_vars

\* The levels of a group with last_known and pred_final, as
\* _harmonize_group_growth would collect them for that group from the
\* forecasts _forecast_level returned.
TrackInfo(group_prefix) ==
    LevelInfo(master_data, "ENG", forecast_by_level, group_prefix)

\* C23: forecast_all harmonizes the group 'M' only: the forecast kept and
\* saved for a P level is the output of _forecast_level for that level.
C23_PLevelsUntouched ==
    /\ pc \in {"save", "plots"} =>
           \A l \in DOMAIN forecasts :
               LevelTrack[l] = "P" => forecasts[l] = forecast_by_level[l]
    /\ pc = "plots" =>
           \A l \in DOMAIN forecasts_file.ENG :
               LevelTrack[l] = "P" => forecasts_file.ENG[l] = forecast_by_level[l]

\* The forecasts are saved, a trajectory of the group 'M' was replaced, and
\* a P level whose 2030 forecast is below its last salary times the median
\* factor of the P levels is saved as _forecast_level returned it.
C23_Witness ==
    /\ pc = "plots"
    /\ \E l \in DOMAIN forecasts :
           LevelTrack[l] = "M" /\ forecasts[l] # forecast_by_level[l]
    /\ \E l \in DOMAIN TrackInfo("P") :
           /\ BelowTarget(TrackInfo("P")[l], MedianFactor(TrackInfo("P")))
           /\ forecasts_file.ENG[l] = forecast_by_level[l]

\* C24: harmonization only pulls forecasts up: for every level and every
\* year 2024..2030 the value in the harmonized forecast set is at least the
\* value _forecast_level produced for that level and year.
C24_OnlyPullsUp ==
    pc \in {"save", "plots"} =>
        \A l \in DOMAIN forecasts :
            \A y \in ForecastYears : forecasts[l][y] >= forecast_by_level[l][y]

\* C25: an outlier factor is left out of the median only.  When some factor
\* lies strictly between 0.2 and 10, a group level whose own factor is 0.2
\* or less is still measured against last_known * median_factor and gets
\* the interpolated trajectory towards it, and a level whose factor is 10 or
\* more keeps its forecast.
C25_OutliersStillAdjusted ==
    (pc = "returned" /\ Qualifying # {}) =>
        \A l \in DOMAIN CallInfo :
            LET last   == QInt(CallInfo[l].last_known)
                target == TargetFinal(CallInfo[l], QualifyingMedian)
            IN  /\ (/\ CallInfo[l].last_known > 0
                    /\ 5 * CallInfo[l].pred_final <= CallInfo[l].last_known)
                       => /\ forecasts[l] # forecast_by_level[l]
                          /\ \A idx \in 1 .. 7 :
                                 NearestInt(
                                     forecasts[l][FirstForecastYear + idx - 1],
                                     QAdd(last, QMul(QSub(target, last),
                                                     Q(idx, 7))))
                /\ (/\ CallInfo[l].last_known > 0
                    /\ CallInfo[l].pred_final >= 10 * CallInfo[l].last_known)
                       => forecasts[l] = forecast_by_level[l]

\* One level qualifies, a level with a factor of 0.2 or less has been
\* replaced and a level with a factor of 10 or more has kept its forecast.
C25_Witness ==
    /\ pc = "returned"
    /\ Qualifying # {}
    /\ \E l \in DOMAIN CallInfo :
          /\ 5 * CallInfo[l].pred_final <= CallInfo[l].last_known
          /\ forecasts[l] # forecast_by_level[l]
    /\ \E l \in DOMAIN CallInfo :
          /\ CallInfo[l].pred_final >= 10 * CallInfo[l].last_known
          /\ forecasts[l] = forecast_by_level[l]

\* The years of the master data in which a profession lists a level.
ListedYears(profession, l) ==
    { k \in DOMAIN master_data.by_year :
        l \in DOMAIN GetProfession(master_data.by_year[k], profession) }

\* C26: a level is in the saved forecast set exactly when it is one of
\* P1..P5, M1..M5 and the master data hold at least two ENG observations of
\* it; P6 is not forecast, and nothing is forecast from the GEO tables.
C26_ForecastSetMembership ==
    pc = "plots" =>
        /\ DOMAIN forecasts_file = {"metadata", "ENG"}
        /\ \A l \in DOMAIN LevelTrack :
               l \in DOMAIN forecasts_file.ENG <=>
                   /\ l \in {"P1", "P2", "P3", "P4", "P5",
                             "M1", "M2", "M3", "M4", "M5"}
                   /\ Cardinality(ListedYears("ENG", l)) >= 2
        /\ DOMAIN forecasts_file.ENG \subseteq DOMAIN LevelTrack
        /\ "P6" \notin DOMAIN forecasts_file.ENG

\* The forecasts are saved: a level with two ENG observations is among them,
\* P6 with an ENG salary in every year is not, and P1 with a GEO salary in
\* every year and fewer than two ENG observations is not.
C26_Witness ==
    /\ pc = "plots"
    /\ DOMAIN forecasts_file.ENG # {}
    /\ Cardinality(ListedYears("ENG", "P6")) >= 2
    /\ Cardinality(ListedYears("GEO", "P1")) >= 2
    /\ Cardinality(ListedYears("ENG", "P1")) < 2
    /\ {"P1", "P6"} \cap DOMAIN forecasts_file.ENG = {}

-----------------------------------------------------------------------------
(* The forecaster on a master file that extract_2024_manual.py has updated. *)

\* The master files of save_master_dataset, as they are and with the
\* by_year['2024'] entry of extract_2024_manual.py's save_results.  (The
\* parsed tables list P1 only, so that M1, listed for 2024 alone, is not
\* forecast.)
TablesOfP1 ==
    { [ENG |-> NoDict, GEO |-> NoDict],
      [ENG |-> [l \in {"P1"} |-> 68000], GEO |-> NoDict],
      [ENG |-> [l \in {"P1"} |-> 70000], GEO |-> NoDict] }
MasterFilesWith2024 ==
    LET parsed == { JsonDump(MasterDataset(sd, NoDict, NoDict, NoDict)) :
                      sd \in UNION { [ys -> TablesOfP1] :
                                        ys \in SUBSET MasterYears } }
    IN  parsed \cup
        { UpdateMaster(file, 2024,
                       ManualEntry(ManualData2024,
                                   "Manually extracted from image-based PDF")) :
            file \in parsed }

\* SalaryForecaster(): __init__ has loaded the master file.
InitForecast2024 ==
    /\ pc = "forecast_all"
    /\ master_file \in MasterFilesWith2024
    /\ master_data = JsonLoad(master_file)
    /\ years_available = YearsAvailable(master_data)
    /\ historical = Unused
    /\ forecast_data = Unused
    /\ salary_by_level = Unused
    /\ forecasts = Unused
    /\ forecasts_file = Unused
    /\ salary_data = Unused
    /\ org_stats = Unused
    /\ gender_data = Unused
    /\ work_arrangements = Unused
    /\ master_dataset = Unused
    /\ year_files = Unused
    /\ DownloadIdle
    /\ ExtractIdle
    /\ AuxIdle

SpecForecast2024 == InitForecast2024 /\ [][NextForecast]_vars

\* C27: every forecast year of a level is later than the latest year of the
\* history the level was fitted on, also when the master data hold a 2024
\* entry.
C27_ForecastYearsInFuture ==
    pc \in {"save", "plots"} =>
        \A l \in DOMAIN forecasts :
            \A y \in DOMAIN forecasts[l] :
                \A h \in DOMAIN ExtractHistorical(master_data, "ENG", l) : y > h

\* C28: after any sequence of runs of parse_salary_tables.py and of the
\* year-specific scripts, metadata.years of salary_master.json lists
\* exactly the years that are keys of by_year.
C28_YearsListKeys ==
    master_file # NoFile =>
        { master_file.metadata.years[i] :
            i \in DOMAIN master_file.metadata.years }
          = { PyInt(k) : k \in DOMAIN JsonLoad(master_file).by_year }

\* The by_year entries the year-specific scripts can write for a year into
\* data/salary_master.json (the OCR scripts, and for 2024 the manual one).
ScriptEntries(year) ==
    { OcrEntry(OcrData(year, eng, org, gender, remote)) :
        eng \in OcrTables, org \in BOOLEAN, gender \in BOOLEAN,
        remote \in BOOLEAN }
    \cup (IF year = 2024
          THEN {ManualEntry(ManualData2024,
                            "Manually extracted from image-based PDF")}
          ELSE {})

\* The entry of a year in a master file (Null when the year is no key).
EntryOf(file, year) ==
    IF file = NoFile THEN Null
    ELSE Get(JsonLoad(file).by_year, StrKey(year))

\* C29: an entry of by_year that a year-specific script wrote is still in
\* salary_master.json, with the same ENG and GEO salaries, after a run of
\* parse_all_years.
C29_MergedEntriesKept ==
    [][ParseAllYears =>
          \A y \in OcrYears :
              EntryOf(master_file, y) \in ScriptEntries(y) =>
                  /\ EntryOf(master_file', y) # Null
                  /\ EntryOf(master_file', y).ENG = EntryOf(master_file, y).ENG
                  /\ EntryOf(master_file', y).GEO = EntryOf(master_file, y).GEO]_vars

\* A master file before and after a save_results for a year: no file is
\* created, and in an existing file the metadata and the entry of every
\* other year are as before.
OnlyYearChanged(before, after, year) ==
    IF before = NoFile THEN after = NoFile
    ELSE /\ after # NoFile
         /\ JsonLoad(after).metadata = JsonLoad(before).metadata
         /\ DOMAIN JsonLoad(after).by_year
                = DOMAIN JsonLoad(before).by_year \cup {StrKey(year)}
         /\ \A k \in DOMAIN JsonLoad(before).by_year :
                k # StrKey(year) =>
                    JsonLoad(after).by_year[k] = JsonLoad(before).by_year[k]

\* C30: a year-specific save_results does not create salary_master.json,
\* and on an existing file it changes by_year[<its year>] only: the metadata
\* and the entry of every other year are as before.  (The master file of
\* the legacy 2021 script is the one of scripts/data/.)
C30_OnlyOwnYearChanged ==
    [][/\ SaveResults2021OCR => OnlyYearChanged(master_file, master_file', 2021)
       /\ (SaveResults2024OCR \/ SaveResults2024Manual) =>
              OnlyYearChanged(master_file, master_file', 2024)
       /\ SaveResults2021Manual =>
              /\ OnlyYearChanged(legacy_files.salary_master,
                                 legacy_files'.salary_master, 2021)
              /\ master_file' = master_file]_vars

\* The master file holds a parsed entry for 2023 next to the 2024 entry of
\* a year-specific script, and its metadata list the parsed years only.
C30_Witness ==
    /\ master_file # NoFile
    /\ EntryOf(master_file, 2023) # Null
    /\ EntryOf(master_file, 2024) \in ScriptEntries(2024)
    /\ master_file.metadata.years = <<2023>>
    /\ year_files[2024] # NoFile

=============================================================================
